---- MODULE Spec2Model ----
(***************************************************************************)
(* A model of the LWE demonstration repository:                            *)
(*   - lweService: the modular linear algebra, generateKeys, encryptText   *)
(*     and decryptText (second half of src/App.tsx);                       *)
(*   - the LWE App component that calls them (first half of src/App.tsx).  *)
(*                                                                         *)
(* Conventions.  JavaScript arrays are 0-based, TLA+ sequences 1-based:    *)
(* element i of the code is element i+1 of the model.  A JavaScript string *)
(* holding text is the sequence of its UTF-16 code units.  Values that     *)
(* come out of JSON.parse are dynamically typed and are modelled as tagged *)
(* records (see "JavaScript values").                                      *)
(***************************************************************************)
EXTENDS Integers, Sequences, FiniteSets

(***************************************************************************)
(* State.                                                                  *)
(*   callPc, keyPair, keySeed, encCall, decCall: one session of calls of   *)
(*     lweService (Spec);                                                  *)
(*   algCall: one call of a function of the modular linear algebra         *)
(*     (SpecAlg);                                                          *)
(*   timers, heldKeys, heldSeed, lastCall: the pending timers of           *)
(*     generateKeys, the key pair last resolved, and the last call of      *)
(*     encryptText or decryptText, of overlapping invocations (SpecCalls); *)
(*   keys ... activeTab: the state of the App component, pendingUpdates    *)
(*     the state updates queued and not yet rendered, pendingEffect the    *)
(*     render whose effect on [keys] has still to run, encryptResults the  *)
(*     results of encryptText on the inputs of SpecApp (SpecApp);          *)
(*   clock, promises: the time in ms and the promises that generateKeys    *)
(*     has returned (SpecKeygen); with lastCall, the calls of encryptText  *)
(*     and decryptText made while promises are pending (SpecOverlap).      *)
(***************************************************************************)
VARIABLES callPc, keyPair, keySeed, encCall, decCall,
          algCall,
          timers, heldKeys, heldSeed, lastCall,
          keys, isGenerating, inputMessage, ciphertext, decryptedText,
          encryptionStats, decryptError, activeTab,
          pendingUpdates, pendingEffect, encryptResults,
          clock, promises

sessionVars == <<callPc, keyPair, keySeed, encCall, decCall>>
algVars == <<algCall>>
callVars == <<timers, heldKeys, heldSeed, lastCall>>
appVars == <<keys, isGenerating, inputMessage, ciphertext, decryptedText,
             encryptionStats, decryptError, activeTab,
             pendingUpdates, pendingEffect, encryptResults>>
promiseVars == <<clock, promises>>
vars == <<sessionVars, algVars, callVars, appVars, promiseVars>>

(***************************************************************************)
(* Program constants (lweService).                                         *)
(***************************************************************************)
Q == 3329
N == 128
M == 256
ERROR_RANGE == 3

(***************************************************************************)
(* Integer arithmetic of JavaScript.                                       *)
(***************************************************************************)
\* a % q of JavaScript: the remainder takes the sign of the dividend.
JsRem(a, q) == IF a >= 0 THEN a % q ELSE -((-a) % q)

\* Math.floor(a / b) for a >= 0, b > 0.
FloorDiv(a, b) == a \div b

\* Math.abs
Abs(a) == IF a < 0 THEN -a ELSE a

\* The value of "let sum = 0; for (k = lo..hi) sum += f[k]".  The additions
\* are integer additions, so the order in which they are done does not
\* change the sum; the range is halved, down to runs of eight terms, to keep
\* the evaluation depth small.
RECURSIVE Sum(_, _, _)
Sum(f, lo, hi) ==
  IF hi - lo >= 8
  THEN LET mid == (lo + hi) \div 2
       IN  Sum(f, lo, mid) + Sum(f, mid + 1, hi)
  ELSE IF hi - lo = 7
  THEN f[lo] + f[lo + 1] + f[lo + 2] + f[lo + 3]
         + f[lo + 4] + f[lo + 5] + f[lo + 6] + f[hi]
  ELSE IF lo > hi THEN 0
  ELSE f[lo] + Sum(f, lo + 1, hi)

(***************************************************************************)
(* ModularLinearAlgebra on number[] / number[][] holding integers.         *)
(***************************************************************************)
\* A mutant of CanonMod: the language-level remainder, left uncorrected.
CanonModUncorrected(sum, q) == JsRem(sum, q)

\* ((sum % q) + q) % q
CanonMod(sum, q) == JsRem(JsRem(sum, q) + q, q)

\* matVecMul: result[i] = (sum_j A[i][j] * s[j]) mod q, m = A.length rows,
\* n = A[0].length columns.
matVecMul(A, s, q) ==
  LET m == Len(A)
      n == Len(A[1])
  IN  [i \in 1..m |-> CanonMod(Sum([j \in 1..n |-> A[i][j] * s[j]], 1, n), q)]

\* A mutant of matTransVecMul: the inner loop stops one row early.
matTransVecMulShortLoop(A, r, q) ==
  LET m == Len(A)
      n == Len(A[1])
  IN  [j \in 1..n |-> CanonMod(Sum([i \in 1..(m - 1) |-> A[i][j] * r[i]], 1, m - 1), q)]

\* matTransVecMul: result[j] = (sum_i A[i][j] * r[i]) mod q.
matTransVecMul(A, r, q) ==
  LET m == Len(A)
      n == Len(A[1])
  IN  [j \in 1..n |-> CanonMod(Sum([i \in 1..m |-> A[i][j] * r[i]], 1, m), q)]

\* vecAdd: v1.map((val, i) => ((val + v2[i]) % q + q) % q)
vecAdd(v1, v2, q) == [i \in 1..Len(v1) |-> CanonMod(v1[i] + v2[i], q)]

\* vecDot on two integer vectors (see vecDot below for the general case).
vecDotInt(v1, v2, q) ==
  CanonMod(Sum([i \in 1..Len(v1) |-> v1[i] * v2[i]], 1, Len(v1)), q)

(***************************************************************************)
(* JavaScript values.  What JSON.parse returns is dynamically typed; the   *)
(* model tags each value with its type.  A non-empty array all of whose    *)
(* elements are integers is kept as "numbers" (its elements untagged); any *)
(* other array, the empty one included, is an "array" of tagged values.    *)
(* A "string" value stands for a                                           *)
(* string of len letters (no digits, no white space), so its conversion to *)
(* a number is NaN unless it is empty.  Objects have string keys that are  *)
(* not array indices.                                                      *)
(***************************************************************************)
JUndef == [t |-> "undefined"]
JNull == [t |-> "null"]
JNaN == [t |-> "NaN"]
JNum(n) == [t |-> "number", n |-> n]
JStr(len) == [t |-> "string", len |-> len]
JVec(ns) == [t |-> "numbers", ns |-> ns]
JArr(a) == [t |-> "array", a |-> a]
JObj(o) == [t |-> "object", o |-> o]
\* The outcome of an expression that throws (TypeError, SyntaxError,
\* DOMException): it propagates to the enclosing catch.
JThrow == [t |-> "throw"]

\* val[name] for a property name that is not an array index nor a built-in.
GetProp(val, name) ==
  CASE val.t \in {"undefined", "null"} -> JThrow
    [] val.t = "object" -> IF name \in DOMAIN val.o THEN val.o[name] ELSE JUndef
    [] OTHER -> JUndef

\* val[k - 1] of the code, k = 1 for the first element.
Index(val, k) ==
  CASE val.t \in {"undefined", "null"} -> JThrow
    [] val.t = "numbers" -> IF k <= Len(val.ns) THEN JNum(val.ns[k]) ELSE JUndef
    [] val.t = "array" -> IF k <= Len(val.a) THEN val.a[k] ELSE JUndef
    [] val.t = "string" -> IF k <= val.len THEN JStr(1) ELSE JUndef
    [] OTHER -> JUndef

\* ToNumber of ECMAScript on the modelled values: the arithmetic operators
\* *, - and % apply it to their operands.
RECURSIVE ToNumber(_)
ToNumber(val) ==
  CASE val.t \in {"number", "NaN"} -> val
    [] val.t = "null" -> JNum(0)
    [] val.t = "string" -> IF val.len = 0 THEN JNum(0) ELSE JNaN
    [] val.t = "numbers" ->
         IF Len(val.ns) = 1 THEN JNum(val.ns[1]) ELSE JNaN
    [] val.t = "array" ->
         \* Array.prototype.toString, then the string's number: join of one
         \* element is that element's string, null giving "".
         IF Len(val.a) = 0 THEN JNum(0)
         ELSE IF Len(val.a) > 1 THEN JNaN
         ELSE IF val.a[1].t = "object" THEN JNaN
         ELSE ToNumber(val.a[1])
    [] OTHER -> JNaN

JsMul(a, b) ==
  LET na == ToNumber(a)
      nb == ToNumber(b)
  IN  IF na.t = "number" /\ nb.t = "number" THEN JNum(na.n * nb.n) ELSE JNaN

JsSub(a, b) ==
  LET na == ToNumber(a)
      nb == ToNumber(b)
  IN  IF na.t = "number" /\ nb.t = "number" THEN JNum(na.n - nb.n) ELSE JNaN

JsRemV(a, q) ==
  LET na == ToNumber(a)
  IN  IF na.t = "number" THEN JNum(JsRem(na.n, q)) ELSE JNaN

\* vecDot(v1, v2, q): v1 is a Vector of the key pair (integers); v2 is
\* whatever the caller passes, in decryptText a value out of JSON.parse.
\* v2[i] throws a TypeError when v2 is undefined or null (and the loop runs
\* at least once); a product with a non-number is NaN and NaN absorbs the
\* sum and both remainders.
vecDot(v1, v2, q) ==
  LET n == Len(v1)
      term == [i \in 1..n |-> JsMul(JNum(v1[i]), Index(v2, i))]
  IN  IF n > 0 /\ v2.t \in {"undefined", "null"} THEN JThrow
      ELSE IF v2.t = "numbers" /\ Len(v2.ns) >= n THEN JNum(vecDotInt(v1, v2.ns, q))
      ELSE IF \E i \in 1..n : term[i].t = "NaN" THEN JNaN
      ELSE JNum(CanonMod(Sum([i \in 1..n |-> term[i].n], 1, n), q))

(***************************************************************************)
(* Text: TextEncoder.encode and TextDecoder.decode (Encoding Standard).    *)
(***************************************************************************)
IsHighSurrogate(cu) == cu >= 55296 /\ cu <= 56319     \* D800..DBFF
IsLowSurrogate(cu) == cu >= 56320 /\ cu <= 57343      \* DC00..DFFF
REPLACEMENT == 65533                                   \* U+FFFD
BOM == 65279                                           \* U+FEFF

\* The scalar values of a string from code unit k on: a surrogate pair is one
\* code point, a lone surrogate becomes U+FFFD (USVString conversion).
RECURSIVE CodePointsFrom(_, _)
CodePointsFrom(str, k) ==
  IF k > Len(str) THEN <<>>
  ELSE IF IsHighSurrogate(str[k]) /\ k < Len(str) /\ IsLowSurrogate(str[k + 1])
       THEN <<65536 + (str[k] - 55296) * 1024 + (str[k + 1] - 56320)>>
            \o CodePointsFrom(str, k + 2)
  ELSE IF IsHighSurrogate(str[k]) \/ IsLowSurrogate(str[k])
       THEN <<REPLACEMENT>> \o CodePointsFrom(str, k + 1)
  ELSE <<str[k]>> \o CodePointsFrom(str, k + 1)

\* The UTF-8 bytes of one scalar value.
Utf8Bytes(cp) ==
  IF cp < 128 THEN <<cp>>
  ELSE IF cp < 2048 THEN <<192 + (cp \div 64), 128 + (cp % 64)>>
  ELSE IF cp < 65536
       THEN <<224 + (cp \div 4096), 128 + ((cp \div 64) % 64), 128 + (cp % 64)>>
  ELSE <<240 + (cp \div 262144), 128 + ((cp \div 4096) % 64),
         128 + ((cp \div 64) % 64), 128 + (cp % 64)>>

RECURSIVE Utf8Encode(_, _)
Utf8Encode(cps, k) ==
  IF k > Len(cps) THEN <<>> ELSE Utf8Bytes(cps[k]) \o Utf8Encode(cps, k + 1)

\* new TextEncoder().encode(str)
TextEncoderEncode(str) == Utf8Encode(CodePointsFrom(str, 1), 1)

\* The UTF-8 decoder of the Encoding Standard with error mode "replacement"
\* (TextDecoder's default, fatal = false), from byte k on.  st holds the
\* decoder's code point, bytes needed, bytes seen and lower/upper boundary.
Utf8Start == [cp |-> 0, needed |-> 0, seen |-> 0, lower |-> 128, upper |-> 191]

RECURSIVE Utf8Decode(_, _, _)
Utf8Decode(bytes, k, st) ==
  IF k > Len(bytes)
  THEN IF st.needed # 0 THEN <<REPLACEMENT>> ELSE <<>>
  ELSE LET byte == bytes[k] IN
    IF st.needed = 0
    THEN IF byte <= 127 THEN <<byte>> \o Utf8Decode(bytes, k + 1, Utf8Start)
         ELSE IF byte >= 194 /\ byte <= 223
              THEN Utf8Decode(bytes, k + 1,
                     [Utf8Start EXCEPT !.needed = 1, !.cp = byte % 32])
         ELSE IF byte >= 224 /\ byte <= 239
              THEN Utf8Decode(bytes, k + 1,
                     [Utf8Start EXCEPT !.needed = 2, !.cp = byte % 16,
                        !.lower = IF byte = 224 THEN 160 ELSE 128,
                        !.upper = IF byte = 237 THEN 159 ELSE 191])
         ELSE IF byte >= 240 /\ byte <= 244
              THEN Utf8Decode(bytes, k + 1,
                     [Utf8Start EXCEPT !.needed = 3, !.cp = byte % 8,
                        !.lower = IF byte = 240 THEN 144 ELSE 128,
                        !.upper = IF byte = 244 THEN 143 ELSE 191])
         ELSE <<REPLACEMENT>> \o Utf8Decode(bytes, k + 1, Utf8Start)
    ELSE IF byte < st.lower \/ byte > st.upper
         \* the byte is put back and read again from the start state
         THEN <<REPLACEMENT>> \o Utf8Decode(bytes, k, Utf8Start)
    ELSE LET cp == st.cp * 64 + (byte % 64) IN
         IF st.seen + 1 # st.needed
         THEN Utf8Decode(bytes, k + 1,
                [st EXCEPT !.cp = cp, !.seen = st.seen + 1,
                           !.lower = 128, !.upper = 191])
         ELSE <<cp>> \o Utf8Decode(bytes, k + 1, Utf8Start)

\* The UTF-16 code units of a sequence of scalar values.
RECURSIVE ToCodeUnits(_, _)
ToCodeUnits(cps, k) ==
  IF k > Len(cps) THEN <<>>
  ELSE IF cps[k] >= 65536
       THEN <<55296 + ((cps[k] - 65536) \div 1024), 56320 + ((cps[k] - 65536) % 1024)>>
            \o ToCodeUnits(cps, k + 1)
  ELSE <<cps[k]>> \o ToCodeUnits(cps, k + 1)

\* new TextDecoder().decode(new Uint8Array(bytes)): label "utf-8", fatal =
\* false, ignoreBOM = false, so a leading byte order mark is dropped and
\* every ill-formed sequence becomes U+FFFD; it never throws.
TextDecoderDecode(bytes) ==
  LET cps == Utf8Decode(bytes, 1, Utf8Start)
      body == IF Len(cps) > 0 /\ cps[1] = BOM THEN Tail(cps) ELSE cps
  IN  ToCodeUnits(body, 1)

(***************************************************************************)
(* The ciphertext transport string.  A string handed to atob is one of     *)
(*   [s |-> "empty"]                 the empty string;                     *)
(*   [s |-> "notBase64"]             a string atob rejects;                *)
(*   [s |-> "base64", text |-> T]    the base64 encoding of the text T,    *)
(* and a text handed to JSON.parse is [x |-> "notJSON"] (JSON.parse throws *)
(* a SyntaxError; the empty text is one of these) or                       *)
(* [x |-> "JSON", value |-> V], the JSON text of the value V.              *)
(***************************************************************************)
EmptyString == [s |-> "empty"]
NotBase64 == [s |-> "notBase64"]
NotJSON == [x |-> "notJSON"]

\* btoa(text): text is ASCII here (JSON.stringify of integers and ASCII keys)
btoa(text) == [s |-> "base64", text |-> text]

\* atob(str)
atob(str) ==
  CASE str.s = "notBase64" -> JThrow
    [] str.s = "empty" -> NotJSON
    [] OTHER -> str.text

\* JSON.stringify(value) of a value holding only finite numbers, strings,
\* arrays and objects.
JSONstringify(value) == [x |-> "JSON", value |-> value]

\* JSON.parse(text)
JSONparse(text) == IF text.x = "JSON" THEN text.value ELSE JThrow

(***************************************************************************)
(* RandomSource.  w is the Uint32 that crypto.getRandomValues stores.      *)
(***************************************************************************)
\* A mutant of getRandomInt: the remainder is taken by max + 1.
getRandomIntInclusive(max, w) == w % (max + 1)

\* getRandomInt(max) = array[0] % max
getRandomInt(max, w) == w % max

\* A mutant of getRandomError: the draw is not centred on 0.
getRandomErrorUncentred(range, w) == getRandomInt(range * 2 + 1, w)

\* getRandomError(range) = getRandomInt(range * 2 + 1) - range
getRandomError(range, w) == getRandomInt(range * 2 + 1, w) - range

\* generateMatrix(rows, cols, q), raw[i][j] the word drawn for entry (i, j)
generateMatrix(rows, cols, q, raw) ==
  [i \in 1..rows |-> [j \in 1..cols |-> getRandomInt(q, raw[i][j])]]

(***************************************************************************)
(* KeyGenerator: the body of the timer callback of generateKeys.  rnd      *)
(* holds the words drawn: rnd.s[j], rnd.A[i][j], rnd.e[i].                  *)
(***************************************************************************)
\* A mutant of ErrorVector: every error is four times the draw.
ErrorVectorScaled(rnd) == [i \in 1..M |-> 4 * getRandomError(ERROR_RANGE, rnd.e[i])]

\* The error vector e of a generation (it is a local of the callback).
ErrorVector(rnd) == [i \in 1..M |-> getRandomError(ERROR_RANGE, rnd.e[i])]

\* A mutant of generateKeysCallback: resolve is reached before b is
\* computed.
generateKeysCallbackEarlyResolve(rnd) ==
  LET s == [j \in 1..N |-> getRandomError(ERROR_RANGE, rnd.s[j])]
      A == generateMatrix(M, N, Q, rnd.A)
  IN  [pk |-> [A |-> A, b |-> <<>>], sk |-> s]

generateKeysCallback(rnd) ==
  LET s == [j \in 1..N |-> getRandomError(ERROR_RANGE, rnd.s[j])]
      A == generateMatrix(M, N, Q, rnd.A)
      e == ErrorVector(rnd)
      As == matVecMul(A, s, Q)
      b == vecAdd(As, e, Q)
  IN  [pk |-> [A |-> A, b |-> b], sk |-> s]

(***************************************************************************)
(* Encryptor.                                                              *)
(***************************************************************************)
\* A mutant of ByteBits: least-significant bit first.
ByteBitsLsbFirst(byte) == [k \in 1..8 |-> (byte \div (2 ^ (k - 1))) % 2]

\* for (let i = 7; i >= 0; i--) bits.push((byte >> i) & 1)
ByteBits(byte) == [k \in 1..8 |-> (byte \div (2 ^ (8 - k))) % 2]

\* bytes.forEach(byte => ...): the bits of all bytes, in order
BytesToBits(bytes) ==
  [k \in 1..(8 * Len(bytes)) |-> ByteBits(bytes[((k - 1) \div 8) + 1])[((k - 1) % 8) + 1]]

\* A mutant of BinaryVector: the loop runs once more and pushes a 0.
BinaryVectorLong(words) ==
  LET RECURSIVE pushed(_, _)
      pushed(lo, hi) ==
        IF lo = hi THEN <<IF lo <= M THEN getRandomInt(2, words[lo]) ELSE 0>>
        ELSE pushed(lo, (lo + hi) \div 2) \o pushed(((lo + hi) \div 2) + 1, hi)
  IN  pushed(1, M + 1)

\* The binary vector r of one block from the words drawn for it:
\* const r = []; for (let i = 0; i < M; i++) r.push(getRandomInt(2)).
\* pushed(lo, hi) is the run of elements pushed for i = lo-1 .. hi-1; the
\* range is halved to keep the evaluation depth small.
BinaryVector(words) ==
  LET RECURSIVE pushed(_, _)
      pushed(lo, hi) ==
        IF lo = hi THEN <<getRandomInt(2, words[lo])>>
        ELSE pushed(lo, (lo + hi) \div 2) \o pushed(((lo + hi) \div 2) + 1, hi)
  IN  pushed(1, M)

\* A mutant of EncryptBlock: v + messageEncoding is not reduced mod Q.
EncryptBlockUnreduced(pk, bit, words) ==
  LET r == BinaryVector(words)
      u == matTransVecMul(pk.A, r, Q)
      v == vecDot(pk.b, JVec(r), Q).n
      messageEncoding == bit * FloorDiv(Q, 2)
      vPrime == v + messageEncoding
  IN  [u |-> u, v |-> vPrime]

\* One iteration of bits.forEach, the block pushed: u = A^T r,
\* v = b.r, vPrime = (v + bit * floor(Q/2)) % Q.
EncryptBlock(pk, bit, words) ==
  LET r == BinaryVector(words)
      u == matTransVecMul(pk.A, r, Q)
      v == vecDot(pk.b, JVec(r), Q).n
      messageEncoding == bit * FloorDiv(Q, 2)
      vPrime == (v + messageEncoding) % Q
  IN  [u |-> u, v |-> vPrime]

\* One iteration of bits.forEach, the statistics record pushed when
\* index < 20 (index is 0-based, as in the code).
EncryptStat(pk, bit, index, words) ==
  LET r == BinaryVector(words)
      v == vecDot(pk.b, JVec(r), Q).n
      messageEncoding == bit * FloorDiv(Q, 2)
      vPrime == (v + messageEncoding) % Q
  IN  [bitIndex |-> index, originalBit |-> bit, vVal |-> v,
       vPrime |-> vPrime, encodedVal |-> messageEncoding]

\* The container as JSON.stringify sees it.
ContainerValue(blocks, timestamp) ==
  JObj([blocks |-> JArr([k \in 1..Len(blocks) |->
                      JObj([u |-> JVec(blocks[k].u), v |-> JNum(blocks[k].v)])]),
        meta |-> JObj([timestamp |-> JNum(timestamp), algorithm |-> JStr(9)])])

\* encryptText(pk, plaintext): rnd[k] holds the words drawn for bit k,
\* now is Date.now().
encryptText(pk, plaintext, rnd, now) ==
  LET bytes == TextEncoderEncode(plaintext)
      bits == BytesToBits(bytes)
      n == Len(bits)
      blocks == [k \in 1..n |-> EncryptBlock(pk, bits[k], rnd[k])]
      nstats == IF n < 20 THEN n ELSE 20
      stats == [k \in 1..nstats |-> EncryptStat(pk, bits[k], k - 1, rnd[k])]
  IN  [ciphertext |-> btoa(JSONstringify(ContainerValue(blocks, now))),
       stats |-> stats]

(***************************************************************************)
(* Decryptor.                                                              *)
(***************************************************************************)
\* throw new Error("Sifre cozulemedi. Gecersiz anahtar veya bozuk veri.")
\* (the message of the code, written here without its diacritics)
DECRYPT_ERROR == "Sifre cozulemedi. Gecersiz anahtar veya bozuk veri."

Returned(value) == [ok |-> TRUE, value |-> value]
Thrown(message) == [ok |-> FALSE, error |-> message]

\* A mutant of DecideBit: the centring test compares with quarterQ, not
\* with Q - quarterQ.
DecideBitCentreLow(dv) ==
  IF dv.t = "NaN" THEN 0
  ELSE LET halfQ == FloorDiv(Q, 2)
           quarterQ == FloorDiv(Q, 4)
           d0 == dv.n
           d1 == IF d0 < 0 THEN d0 + Q ELSE d0
           d2 == IF d1 > quarterQ THEN d1 - Q ELSE d1
       IN  IF Abs(d2 - halfQ) < quarterQ THEN 1 ELSE 0

\* A mutant of DecideBit: the threshold test is <= quarterQ.
DecideBitInclusive(dv) ==
  IF dv.t = "NaN" THEN 0
  ELSE LET halfQ == FloorDiv(Q, 2)
           quarterQ == FloorDiv(Q, 4)
           d0 == dv.n
           d1 == IF d0 < 0 THEN d0 + Q ELSE d0
           d2 == IF d1 > Q - quarterQ THEN d1 - Q ELSE d1
       IN  IF Abs(d2 - halfQ) <= quarterQ THEN 1 ELSE 0

\* A mutant of DecideBit: a negative remainder is not moved into [0, Q).
DecideBitNoWrap(dv) ==
  IF dv.t = "NaN" THEN 0
  ELSE LET halfQ == FloorDiv(Q, 2)
           quarterQ == FloorDiv(Q, 4)
           d1 == dv.n
           d2 == IF d1 > Q - quarterQ THEN d1 - Q ELSE d1
       IN  IF Abs(d2 - halfQ) < quarterQ THEN 1 ELSE 0

\* The decision of one block from d = (v - sTu) % Q, a number or NaN:
\* every comparison with NaN is false.
DecideBit(dv) ==
  IF dv.t = "NaN" THEN 0
  ELSE LET halfQ == FloorDiv(Q, 2)
           quarterQ == FloorDiv(Q, 4)
           d0 == dv.n
           d1 == IF d0 < 0 THEN d0 + Q ELSE d0
           d2 == IF d1 > Q - quarterQ THEN d1 - Q ELSE d1
       IN  IF Abs(d2 - halfQ) < quarterQ THEN 1 ELSE 0

\* The callback of blocks.forEach on one element: JThrow, or the bit pushed.
\* "const { u, v } = block" throws on null.
DecryptBlock(sk, block) ==
  LET u == GetProp(block, "u")
      v == GetProp(block, "v")
      sTu == vecDot(sk, u, Q)
  IN  IF block.t \in {"undefined", "null"} THEN JThrow
      ELSE IF sTu.t = "throw" THEN JThrow
      ELSE JNum(DecideBit(JsRemV(JsSub(v, sTu), Q)))

\* container.blocks.forEach(...): JThrow when blocks is not an array (it is
\* undefined or null, or has no forEach) or when the callback throws, else
\* decryptedBits.
DecryptBits(sk, container) ==
  LET blocks == GetProp(container, "blocks")
      n == IF blocks.t = "numbers" THEN Len(blocks.ns)
           ELSE IF blocks.t = "array" THEN Len(blocks.a) ELSE 0
      bit == [k \in 1..n |-> DecryptBlock(sk, Index(blocks, k))]
  IN  IF blocks.t \notin {"numbers", "array"} THEN JThrow
      ELSE IF \E k \in 1..n : bit[k].t = "throw" THEN JThrow
      ELSE JVec([k \in 1..n |-> bit[k].n])

\* The inner loop of "Bits to bytes" for the group that starts at bit i
\* (0-based): byteVal = (byteVal << 1) | bit for each j with i + j < length.
RECURSIVE ByteVal(_, _, _)
ByteVal(bits, i, j) ==
  IF j < 0 THEN 0
  ELSE IF i + j < Len(bits) THEN ByteVal(bits, i, j - 1) * 2 + bits[i + j + 1]
  ELSE ByteVal(bits, i, j - 1)

\* A mutant of BitsToBytes: a loop that runs its body before testing
\* i < decryptedBits.length, so that no bit still gives one byte.
BitsToBytesAtLeastOnce(bits) ==
  [g \in 1..(IF Len(bits) = 0 THEN 1 ELSE (Len(bits) + 7) \div 8) |->
     ByteVal(bits, 8 * (g - 1), 7)]

\* for (let i = 0; i < decryptedBits.length; i += 8) bytes.push(byteVal)
BitsToBytes(bits) ==
  [g \in 1..((Len(bits) + 7) \div 8) |-> ByteVal(bits, 8 * (g - 1), 7)]

\* decryptText(sk, ciphertextBase64): whatever is thrown inside the try is
\* caught and replaced by the one Error.
decryptText(sk, ciphertextBase64) ==
  LET jsonStr == atob(ciphertextBase64)
      container == JSONparse(jsonStr)
      bits == DecryptBits(sk, container)
  IN  IF jsonStr = JThrow THEN Thrown(DECRYPT_ERROR)
      ELSE IF container = JThrow THEN Thrown(DECRYPT_ERROR)
      ELSE IF bits = JThrow THEN Thrown(DECRYPT_ERROR)
      ELSE Returned(TextDecoderDecode(BitsToBytes(bits.ns)))

(***************************************************************************)
(* The calls of the holder of a key pair (handleEncrypt, handleDecrypt).   *)
(***************************************************************************)
\* A mutant of EncryptCall: b is recomputed from the secret key, without the
\* error vector.
EncryptCallFromSecret(kp, plaintext, rnd, now) ==
  encryptText([A |-> kp.pk.A, b |-> matVecMul(kp.pk.A, kp.sk, Q)],
              plaintext, rnd, now)

\* The call of the caller that holds the key pair:
\* encryptText(keys.pk, inputMessage).
EncryptCall(kp, plaintext, rnd, now) == encryptText(kp.pk, plaintext, rnd, now)

\* decryptText(keys.sk, ciphertext)
DecryptCall(kp, str) == decryptText(kp.sk, str)

(***************************************************************************)
(* Inputs.  The words of the random source are drawn from a few named      *)
(* streams, which include the extreme error vectors (all +ERROR_RANGE, all *)
(* -ERROR_RANGE) and the all-ones binary vector.                           *)
(***************************************************************************)
KeySources == {"high", "low", "mixed"}

KeyRandom(src) ==
  CASE src = "high" ->
         [s |-> [j \in 1..N |-> 6 + 7 * j],
          A |-> [i \in 1..M |-> [j \in 1..N |-> 1000003 * i + 7919 * j]],
          e |-> [i \in 1..M |-> 6]]
    [] src = "low" ->
         [s |-> [j \in 1..N |-> j],
          A |-> [i \in 1..M |-> [j \in 1..N |-> 131 * i + 31 * j + i * j]],
          e |-> [i \in 1..M |-> 7 * i]]
    [] OTHER ->
         [s |-> [j \in 1..N |-> 3 * j + 1],
          A |-> [i \in 1..M |-> [j \in 1..N |-> 2147483647 - (4099 * i + 17 * j)]],
          e |-> [i \in 1..M |-> 5 * i + 2]]

EncSources == {"ones", "alternating"}

EncRandom(src) ==
  IF src = "ones"
  THEN [k \in Nat |-> [i \in 1..M |-> 2 * (i + k) + 1]]
  ELSE [k \in Nat |-> [i \in 1..M |-> i + k]]

\* Date.now()
Timestamps == {1700000000}

\* Plaintexts: "", "A", U+00E9, U+FEFF, and U+FEFF "A".
MaxPlainLen == 1
PlaintextPool == {<<>>, <<65>>, <<233>>, <<65279>>, <<65279, 65>>}
Plaintexts == {m \in PlaintextPool : Len(m) <= MaxPlainLen}

\* Strings handed to decryptText that encryptText did not produce.  Blocks
\* are built on the zero vector, so that d = v mod Q.
ZeroU == [j \in 1..N |-> 0]
MetaValue == JObj([timestamp |-> JNum(1700000000), algorithm |-> JStr(9)])
CraftedBlock(v) == JObj([u |-> JVec(ZeroU), v |-> JNum(v)])
TransportOf(value) == btoa(JSONstringify(value))
WithBlocks(blocks) == TransportOf(JObj([blocks |-> blocks, meta |-> MetaValue]))

\* Not the encoding of a container of blocks (u of N integers, v an integer).
MalformedCiphertexts ==
  { NotBase64,                                   \* "%%%"
    EmptyString,                                 \* ""
    btoa(NotJSON),                               \* btoa("hello")
    TransportOf(JNull),                          \* null
    TransportOf(JNum(5)),                        \* 5
    TransportOf(JObj([meta |-> MetaValue])),     \* no blocks
    WithBlocks(JNull),                           \* blocks: null
    WithBlocks(JStr(3)),                         \* blocks: "abc"
    WithBlocks(JObj([length |-> JNum(0)])),      \* blocks: {length: 0}
    WithBlocks(JArr(<<JNull>>)),                 \* blocks: [null]
    WithBlocks(JVec(<<5>>)),                     \* blocks: [5]
    WithBlocks(JArr(<<JObj([v |-> JNum(5)])>>)),                   \* u missing
    WithBlocks(JArr(<<JObj([u |-> JNull, v |-> JNum(5)])>>)),      \* u: null
    WithBlocks(JArr(<<JObj([u |-> JArr(<<>>), v |-> JNum(5)])>>)),       \* u: []
    WithBlocks(JArr(<<JObj([u |-> JVec(<<1, 2>>), v |-> JNum(5)])>>)),   \* short u
    WithBlocks(JArr(<<JObj([u |-> JNum(7), v |-> JNum(5)])>>)),          \* u: 7
    WithBlocks(JArr(<<JObj([u |-> JStr(3), v |-> JNum(5)])>>)),          \* u: "abc"
    WithBlocks(JArr(<<JObj([u |-> JArr([j \in 1..N |-> IF j = 2 THEN JStr(1) ELSE JNum(0)]),
                            v |-> JNum(5)])>>)),                         \* u[1]: "x"
    WithBlocks(JArr(<<JObj([u |-> JVec(ZeroU)])>>)),                     \* v missing
    WithBlocks(JArr(<<JObj([u |-> JVec(ZeroU), v |-> JStr(3)])>>)),      \* v: "abc"
    WithBlocks(JArr(<<JObj([u |-> JVec(ZeroU), v |-> JNull])>>)),        \* v: null
    WithBlocks(JArr(<<CraftedBlock(1664), JObj([v |-> JNum(5)])>>)) }    \* 2nd block bad

\* Values of d around the thresholds of the decision, one block each.
ProbeValues == {0, 831, 832, 833, 1664, 2495, 2496, 2497, 2498, 3328}

\* Well-formed containers: no block, one block, the bytes 0xFF, 0x41 and
\* 0xC3 0xA9, and three bits (an incomplete byte).
WellFormedCiphertexts ==
  { WithBlocks(JArr(<<>>)) }
  \cup { WithBlocks(JArr(<<CraftedBlock(v)>>)) : v \in ProbeValues }
  \cup { WithBlocks(JArr([k \in 1..8 |-> CraftedBlock(1664)])),
         WithBlocks(JArr([k \in 1..8 |-> CraftedBlock(IF k \in {2, 8} THEN 1664 ELSE 0)])),
         WithBlocks(JArr([k \in 1..16 |->
            CraftedBlock(IF k \in {1, 2, 7, 8, 9, 11, 13, 16} THEN 1664 ELSE 0)])),
         WithBlocks(JArr([k \in 1..3 |-> CraftedBlock(IF k = 2 THEN 0 ELSE 1664)])) }

ForeignCiphertexts == MalformedCiphertexts \cup WellFormedCiphertexts

\* A well-formed container whose blocks decide the bits of the given bytes.
CraftedBytes(bytes) ==
  WithBlocks(JArr([k \in 1..(8 * Len(bytes)) |->
     CraftedBlock(IF (bytes[((k - 1) \div 8) + 1] \div (2 ^ (7 - ((k - 1) % 8)))) % 2 = 1
                  THEN 1664 ELSE 0)]))

\* The initial inputMessage, "Merhaba! Bu güvenli bir LWE mesajıdır.": 38
\* UTF-16 code units, 41 bytes of UTF-8 (328 blocks for one encryption).
DefaultMessage ==
  <<77, 101, 114, 104, 97, 98, 97, 33, 32, 66, 117, 32, 103, 252, 118, 101, 110, 108,
    105, 32, 98, 105, 114, 32, 76, 87, 69, 32, 109, 101, 115, 97, 106, 305, 100, 305,
    114, 46>>

(***************************************************************************)
(* The calls of one session of a caller of lweService: generateKeys, then  *)
(* either encryptText and decryptText of its ciphertext, or decryptText of *)
(* a string that came from elsewhere.                                      *)
(***************************************************************************)
NoCall == [done |-> FALSE]

\* Before any call of lweService and any event of the App: the values of
\* useState (keys null, isGenerating false, ciphertext "", decryptedText "",
\* encryptionStats [], decryptError null, activeTab "encrypt"), no update
\* queued and no effect to run.
InitProgram ==
  /\ callPc = "start"
  /\ keyPair = JNull
  /\ keySeed = "none"
  /\ encCall = NoCall
  /\ decCall = NoCall
  /\ algCall = NoCall
  /\ timers = 0
  /\ heldKeys = JNull
  /\ heldSeed = "none"
  /\ lastCall = NoCall
  /\ keys = JNull
  /\ isGenerating = FALSE
  /\ inputMessage = DefaultMessage
  /\ ciphertext = EmptyString
  /\ decryptedText = <<>>
  /\ encryptionStats = <<>>
  /\ decryptError = JNull
  /\ activeTab = "encrypt"
  /\ pendingUpdates = JNull
  /\ pendingEffect = JNull
  /\ clock = 0
  /\ promises = <<>>

\* encryptResults is used by SpecApp only.
Init == InitProgram /\ encryptResults = <<>>

\* generateKeys(): new Promise(resolve => setTimeout(..., 100)).  The call
\* returns a pending promise; nothing is drawn yet.
GenerateKeys ==
  /\ callPc = "start"
  /\ callPc' = "generating"
  /\ UNCHANGED <<keyPair, keySeed, encCall, decCall, algVars, callVars, appVars,
                 promiseVars>>

\* The timer callback of generateKeys, a later task of the event loop: it
\* draws s, A and e and resolves the promise with the key pair.
GenerateKeysCallback(src) ==
  /\ callPc = "generating"
  /\ keyPair' = generateKeysCallback(KeyRandom(src))
  /\ keySeed' = src
  /\ callPc' = "keyed"
  /\ UNCHANGED <<encCall, decCall, algVars, callVars, appVars, promiseVars>>

EncryptText(m, src, now) ==
  /\ callPc = "keyed"
  /\ encCall' = [done |-> TRUE, plaintext |-> m, rnd |-> src, now |-> now,
                 result |-> EncryptCall(keyPair, m, EncRandom(src), now)]
  /\ callPc' = "encrypted"
  /\ UNCHANGED <<keyPair, keySeed, decCall, algVars, callVars, appVars, promiseVars>>

DecryptText ==
  /\ callPc = "encrypted"
  /\ decCall' = [done |-> TRUE, ciphertext |-> encCall.result.ciphertext,
                 result |-> DecryptCall(keyPair, encCall.result.ciphertext)]
  /\ callPc' = "decrypted"
  /\ UNCHANGED <<keyPair, keySeed, encCall, algVars, callVars, appVars, promiseVars>>

\* decryptText of a string the caller got from elsewhere.
DecryptForeign(str) ==
  /\ callPc = "keyed"
  /\ decCall' = [done |-> TRUE, ciphertext |-> str,
                 result |-> DecryptCall(keyPair, str)]
  /\ callPc' = "decrypted"
  /\ UNCHANGED <<keyPair, keySeed, encCall, algVars, callVars, appVars, promiseVars>>

Next ==
  \/ GenerateKeys
  \/ \E src \in KeySources : GenerateKeysCallback(src)
  \/ \E m \in Plaintexts, src \in EncSources, now \in Timestamps :
       EncryptText(m, src, now)
  \/ DecryptText
  \/ \E str \in ForeignCiphertexts : DecryptForeign(str)

Spec == Init /\ [][Next]_vars

(***************************************************************************)
(* Properties of the session of calls (Spec).                              *)
(***************************************************************************)
\* The container a transport string decodes to, and its blocks, for a
\* string that encryptText produced.
ProducedContainer == encCall.result.ciphertext.text.value
ProducedBlocks == GetProp(ProducedContainer, "blocks").a
ProducedBytes == TextEncoderEncode(encCall.plaintext)

\* C1: decryptText(sk, encryptText(pk, m).ciphertext) returns exactly m, for
\* every key pair of generateKeys, every plaintext m and every r.
C1_RoundTrip ==
  (callPc = "decrypted" /\ encCall.done) =>
     decCall.result = Returned(encCall.plaintext)

\* A string is the encoding of a container of well-formed blocks: base64 of
\* JSON of an object whose blocks is an array of objects with u an array of
\* N integers and v an integer.
IsWellFormedBlock(block) ==
  /\ block.t = "object"
  /\ GetProp(block, "u").t = "numbers"
  /\ Len(GetProp(block, "u").ns) = N
  /\ GetProp(block, "v").t = "number"

IsWellFormedTransport(str) ==
  /\ str.s = "base64"
  /\ str.text.x = "JSON"
  /\ str.text.value.t = "object"
  /\ GetProp(str.text.value, "blocks").t = "array"
  /\ \A k \in 1..Len(GetProp(str.text.value, "blocks").a) :
        IsWellFormedBlock(GetProp(str.text.value, "blocks").a[k])

\* C2: every string that is not the encoding of a container of well-formed
\* blocks is rejected by decryptText with the decode error.
C2_MalformedRejected ==
  (callPc = "decrypted" /\ ~IsWellFormedTransport(decCall.ciphertext)) =>
     decCall.result = Thrown(DECRYPT_ERROR)

\* The bytes decryptText reassembles from a string, when it gets that far.
ReachesBytes(sk, str) ==
  /\ atob(str) # JThrow
  /\ JSONparse(atob(str)) # JThrow
  /\ DecryptBits(sk, JSONparse(atob(str))) # JThrow
ReassembledBytes(sk, str) == BitsToBytes(DecryptBits(sk, JSONparse(atob(str))).ns)

\* Well-formed UTF-8: decoding and encoding again gives the same bytes.
IsWellFormedUtf8(bytes) == Utf8Encode(Utf8Decode(bytes, 1, Utf8Start), 1) = bytes

\* C4: when the reassembled bytes are not valid UTF-8, decryptText reports a
\* decryption failure.
C4_InvalidUtf8Rejected ==
  (/\ callPc = "decrypted"
   /\ ReachesBytes(keyPair.sk, decCall.ciphertext)
   /\ ~IsWellFormedUtf8(ReassembledBytes(keyPair.sk, decCall.ciphertext))) =>
     ~decCall.result.ok

\* C5: the output of encryptText is the same in a run that differs only in
\* the secret key, and the container, its blocks, its meta and the
\* statistics have no field beyond the public ones.
OtherSecret(sk) == [j \in 1..N |-> IF sk[j] = 0 THEN 1 ELSE -sk[j]]

C5_KeyIsolation ==
  callPc = "encrypted" =>
    /\ EncryptCall([pk |-> keyPair.pk, sk |-> OtherSecret(keyPair.sk)],
                   encCall.plaintext, EncRandom(encCall.rnd), encCall.now)
         = encCall.result
    /\ DOMAIN encCall.result = {"ciphertext", "stats"}
    /\ DOMAIN ProducedContainer.o = {"blocks", "meta"}
    /\ DOMAIN GetProp(ProducedContainer, "meta").o = {"timestamp", "algorithm"}
    /\ \A k \in 1..Len(ProducedBlocks) : DOMAIN ProducedBlocks[k].o = {"u", "v"}
    /\ \A k \in 1..Len(encCall.result.stats) :
          DOMAIN encCall.result.stats[k]
            = {"bitIndex", "originalBit", "vVal", "vPrime", "encodedVal"}

C5_Witness ==
  /\ callPc = "encrypted"
  /\ Len(ProducedBlocks) > 0
  /\ OtherSecret(keyPair.sk) # keyPair.sk

\* C6: encryptText(pk, "") gives a container with no block and no
\* statistics, and decryptText of it returns "".
C6_EmptyInput ==
  (encCall.done /\ encCall.plaintext = <<>>) =>
    /\ IsWellFormedTransport(encCall.result.ciphertext)
    /\ ProducedBlocks = <<>>
    /\ encCall.result.stats = <<>>
    /\ callPc = "decrypted" => decCall.result = Returned(<<>>)

C6_Witness == callPc = "decrypted" /\ encCall.done /\ encCall.plaintext = <<>>

\* C7: a key pair of generateKeys has b[i] = (sum_j A[i][j]*s[j] + e[i]) mod Q
\* for some e[i] in [-ERROR_RANGE, ERROR_RANGE], b[i] in [0, Q), and holds
\* A, b and sk only.
RowDot(A, s, i) == Sum([j \in 1..N |-> A[i][j] * s[j]], 1, N)

C7_KeyPairInvariant ==
  callPc = "keyed" =>
    /\ DOMAIN keyPair = {"pk", "sk"}
    /\ DOMAIN keyPair.pk = {"A", "b"}
    /\ Len(keyPair.pk.A) = M /\ Len(keyPair.pk.b) = M /\ Len(keyPair.sk) = N
    /\ \A i \in 1..M :
         /\ keyPair.pk.b[i] \in 0..(Q - 1)
         /\ \E e \in (-ERROR_RANGE)..ERROR_RANGE :
               keyPair.pk.b[i] = (RowDot(keyPair.pk.A, keyPair.sk, i) + e) % Q

C7_Witness ==
  /\ callPc = "keyed"
  /\ \E j \in 1..N : keyPair.sk[j] < 0
  /\ \E i \in 1..M : RowDot(keyPair.pk.A, keyPair.sk, i) < 0

\* C8: a plaintext of k bytes gives 8k blocks, and block 8i + j carries bit
\* (7 - j) of byte i: its v is (b.r + bit * floor(Q/2)) mod Q for the r
\* drawn for that block.
C8_BlockOrder ==
  callPc = "encrypted" =>
    /\ Len(ProducedBlocks) = 8 * Len(ProducedBytes)
    /\ \A i \in 0..(Len(ProducedBytes) - 1), j \in 0..7 :
         LET k == 8 * i + j + 1
             r == BinaryVector(EncRandom(encCall.rnd)[k])
             bit == (ProducedBytes[i + 1] \div (2 ^ (7 - j))) % 2
         IN  GetProp(ProducedBlocks[k], "v").n
               = (vecDotInt(keyPair.pk.b, r, Q) + bit * (Q \div 2)) % Q

C8_Witness == callPc = "encrypted" /\ Len(ProducedBytes) >= 2

(***************************************************************************)
(* One call of a function of the modular linear algebra, on small          *)
(* matrices and vectors and several moduli (SpecAlg).                      *)
(***************************************************************************)
AlgMax == 1
AlgEntries == (-AlgMax)..AlgMax
AlgShapes == {<<1, 1>>, <<1, 2>>, <<2, 1>>, <<2, 2>>}
AlgModuli == {1, 2, 7, Q}

\* The example of the documentation, and operands with the extreme values
\* of the program: entries of A in [0, Q), s in [-3, 3], a 2 x 3 matrix.
ExampleA == <<<<1, 2>>, <<3, 4>>>>
ExampleS == <<1, 1>>
WideA == <<<<3328, 0, 3328>>, <<1, 3328, 2>>>>

AlgVectors ==
  UNION {[1..n -> AlgEntries] : n \in 1..2}
    \cup {ExampleS, <<-3, 3>>, <<-3, -3>>, <<-3, -3, -3>>, <<3, -3, 2>>, <<3328, 3328>>}

AlgMatrices ==
  UNION {[1..sh[1] -> [1..sh[2] -> AlgEntries]] : sh \in AlgShapes}
    \cup {ExampleA, WideA}

MatVecMul(A, s, q) ==
  /\ ~algCall.done
  /\ Len(s) = Len(A[1])
  /\ algCall' = [done |-> TRUE, op |-> "matVecMul", A |-> A, x |-> s, y |-> <<>>,
                 q |-> q, result |-> matVecMul(A, s, q)]
  /\ UNCHANGED <<sessionVars, callVars, appVars, promiseVars>>

MatTransVecMul(A, r, q) ==
  /\ ~algCall.done
  /\ Len(r) = Len(A)
  /\ algCall' = [done |-> TRUE, op |-> "matTransVecMul", A |-> A, x |-> r, y |-> <<>>,
                 q |-> q, result |-> matTransVecMul(A, r, q)]
  /\ UNCHANGED <<sessionVars, callVars, appVars, promiseVars>>

VecDot(v1, v2, q) ==
  /\ ~algCall.done
  /\ Len(v1) = Len(v2)
  /\ algCall' = [done |-> TRUE, op |-> "vecDot", A |-> <<>>, x |-> v1, y |-> v2,
                 q |-> q, result |-> <<vecDot(v1, JVec(v2), q).n>>]
  /\ UNCHANGED <<sessionVars, callVars, appVars, promiseVars>>

VecAdd(v1, v2, q) ==
  /\ ~algCall.done
  /\ Len(v1) = Len(v2)
  /\ algCall' = [done |-> TRUE, op |-> "vecAdd", A |-> <<>>, x |-> v1, y |-> v2,
                 q |-> q, result |-> vecAdd(v1, v2, q)]
  /\ UNCHANGED <<sessionVars, callVars, appVars, promiseVars>>

NextAlg ==
  \/ ~algCall.done /\ \E A \in AlgMatrices, s \in AlgVectors, q \in AlgModuli :
                         MatVecMul(A, s, q)
  \/ ~algCall.done /\ \E A \in AlgMatrices, r \in AlgVectors, q \in AlgModuli :
                         MatTransVecMul(A, r, q)
  \/ ~algCall.done /\ \E v1 \in AlgVectors, v2 \in AlgVectors, q \in AlgModuli :
                         VecDot(v1, v2, q)
  \/ ~algCall.done /\ \E v1 \in AlgVectors, v2 \in AlgVectors, q \in AlgModuli :
                         VecAdd(v1, v2, q)

SpecAlg == Init /\ [][NextAlg]_vars

\* The exact integer that component k of the result of algCall stands for,
\* and the number of components.
AlgExact(k) ==
  CASE algCall.op = "matVecMul" ->
         Sum([j \in 1..Len(algCall.x) |-> algCall.A[k][j] * algCall.x[j]],
             1, Len(algCall.x))
    [] algCall.op = "matTransVecMul" ->
         Sum([i \in 1..Len(algCall.x) |-> algCall.A[i][k] * algCall.x[i]],
             1, Len(algCall.x))
    [] algCall.op = "vecDot" ->
         Sum([i \in 1..Len(algCall.x) |-> algCall.x[i] * algCall.y[i]],
             1, Len(algCall.x))
    [] OTHER -> algCall.x[k] + algCall.y[k]

AlgComponents ==
  CASE algCall.op = "matVecMul" -> Len(algCall.A)
    [] algCall.op = "matTransVecMul" -> Len(algCall.A[1])
    [] algCall.op = "vecDot" -> 1
    [] OTHER -> Len(algCall.x)

\* C9: every component returned by matVecMul, matTransVecMul, vecDot and
\* vecAdd lies in [0, q) and is congruent mod q to the exact integer sum,
\* whatever the signs of the operands; the example Q = 7, A = [[1,2],[3,4]],
\* s = [1,1] gives matVecMul = [3,0].
C9_CanonicalResults ==
  algCall.done =>
    /\ Len(algCall.result) = AlgComponents
    /\ \A k \in 1..AlgComponents :
         /\ algCall.result[k] \in 0..(algCall.q - 1)
         /\ (algCall.result[k] - AlgExact(k)) % algCall.q = 0
    /\ (/\ algCall.op = "matVecMul" /\ algCall.A = ExampleA
        /\ algCall.x = ExampleS /\ algCall.q = 7) => algCall.result = <<3, 0>>

\* A call whose exact sum is negative and is not a multiple of the modulus:
\* the remainder of the language is negative there.
C9_Witness ==
  /\ algCall.done
  /\ algCall.op = "matTransVecMul"
  /\ \E k \in 1..AlgComponents :
       AlgExact(k) < 0 /\ JsRem(AlgExact(k), algCall.q) < 0

\* The transpose of a non-empty rectangular matrix, materialized.
Transpose(A) == [j \in 1..Len(A[1]) |-> [i \in 1..Len(A) |-> A[i][j]]]

\* C17: matTransVecMul(A, r, q) is matVecMul(transpose(A), r, q): it has
\* cols(A) components, and component j is (sum_i A[i][j] * r[i]) mod q.
C17_TransposeEquivalence ==
  (algCall.done /\ algCall.op = "matTransVecMul") =>
    /\ algCall.result = matVecMul(Transpose(algCall.A), algCall.x, algCall.q)
    /\ Len(algCall.result) = Len(algCall.A[1])
    /\ \A j \in 1..Len(algCall.A[1]) :
         algCall.result[j]
           = Sum([i \in 1..Len(algCall.A) |-> algCall.A[i][j] * algCall.x[i]],
                 1, Len(algCall.A)) % algCall.q

\* matTransVecMul has been applied to the 2 x 3 matrix, with a result that
\* is not zero.
C17_Witness ==
  /\ algCall.done
  /\ algCall.op = "matTransVecMul"
  /\ algCall.A = WideA
  /\ Len(algCall.result) = 3
  /\ \E j \in 1..3 : algCall.result[j] # 0

(***************************************************************************)
(* Overlapping invocations of lweService (SpecCalls).  The code runs on    *)
(* one thread: generateKeys returns a pending promise and does its work in *)
(* a timer callback, encryptText and decryptText run to completion.  A     *)
(* caller holds the key pair last resolved.                                *)
(***************************************************************************)
MaxPending == 2
CallKeySources == {"high", "low"}
CallEncSources == {"ones"}
CallPlaintexts == {<<>>, <<65>>}
CallCiphertexts == {NotBase64, EmptyString, CraftedBytes(<<65>>)}

\* generateKeys(): new Promise(resolve => setTimeout(..., 100))
CallGenerateKeys ==
  /\ timers < MaxPending
  /\ timers' = timers + 1
  /\ UNCHANGED <<heldKeys, heldSeed, lastCall, sessionVars, algVars, appVars, promiseVars>>

\* The timer callback of one pending generateKeys: it draws s, A and e and
\* resolves the promise.
GenerateKeysTimer(src) ==
  /\ timers > 0
  /\ timers' = timers - 1
  /\ heldKeys' = generateKeysCallback(KeyRandom(src))
  /\ heldSeed' = src
  /\ UNCHANGED <<lastCall, sessionVars, algVars, appVars, promiseVars>>

\* A mutant of CallEncryptText: encryptText accumulates b.r in place, in
\* the first entry of pk.b.
CallEncryptTextInPlace(m, src, now) ==
  /\ heldKeys # JNull
  /\ lastCall' = [done |-> TRUE, op |-> "encryptText", pk |-> heldKeys.pk,
                  plaintext |-> m, rnd |-> src, now |-> now,
                  result |-> encryptText(heldKeys.pk, m, EncRandom(src), now)]
  /\ heldKeys' = [heldKeys EXCEPT !.pk.b[1] =
                    vecDotInt(heldKeys.pk.b, BinaryVector(EncRandom(src)[1]), Q)]
  /\ UNCHANGED <<timers, heldSeed, sessionVars, algVars, appVars, promiseVars>>

\* encryptText(keys.pk, m) of the holder of the key pair
CallEncryptText(m, src, now) ==
  /\ heldKeys # JNull
  /\ lastCall' = [done |-> TRUE, op |-> "encryptText", pk |-> heldKeys.pk,
                  plaintext |-> m, rnd |-> src, now |-> now,
                  result |-> encryptText(heldKeys.pk, m, EncRandom(src), now)]
  /\ UNCHANGED <<timers, heldKeys, heldSeed, sessionVars, algVars, appVars, promiseVars>>

\* decryptText(keys.sk, str) of the holder of the key pair
CallDecryptText(str) ==
  /\ heldKeys # JNull
  /\ lastCall' = [done |-> TRUE, op |-> "decryptText", sk |-> heldKeys.sk,
                  ciphertext |-> str, result |-> decryptText(heldKeys.sk, str)]
  /\ UNCHANGED <<timers, heldKeys, heldSeed, sessionVars, algVars, appVars, promiseVars>>

\* decryptText of the string the last encryptText returned.
CallDecryptLast ==
  /\ lastCall.done
  /\ lastCall.op = "encryptText"
  /\ CallDecryptText(lastCall.result.ciphertext)

NextCalls ==
  \/ CallGenerateKeys
  \/ \E src \in CallKeySources : GenerateKeysTimer(src)
  \/ \E m \in CallPlaintexts, src \in CallEncSources, now \in Timestamps :
       CallEncryptText(m, src, now)
  \/ \E str \in CallCiphertexts : CallDecryptText(str)
  \/ CallDecryptLast

SpecCalls == Init /\ [][NextCalls]_vars

\* C19: a call of encryptText or decryptText leaves the key pair the caller
\* holds as it was (pk.A, pk.b and sk), and so does nothing but the
\* resolution of a generateKeys change it; decryptText of the string the
\* last encryptText returned was handed that string, and its sk is the
\* caller's still.
C19_InputsReadOnly ==
  [][/\ lastCall' # lastCall => (heldKeys' = heldKeys /\ heldSeed' = heldSeed)
     /\ heldKeys' # heldKeys => (timers' = timers - 1 /\ lastCall' = lastCall)
     /\ (lastCall' # lastCall /\ lastCall'.op = "encryptText") =>
          lastCall'.pk = heldKeys'.pk
     /\ (lastCall' # lastCall /\ lastCall'.op = "decryptText") =>
          lastCall'.sk = heldKeys'.sk]_vars

\* A ciphertext of encryptText has been decrypted by the holder of the key
\* pair, who holds it still.
C19_Witness ==
  /\ lastCall.done
  /\ lastCall.op = "decryptText"
  /\ lastCall.result.ok
  /\ lastCall.result.value = <<65>>
  /\ lastCall.ciphertext \notin CallCiphertexts
  /\ heldKeys # JNull
  /\ lastCall.sk = heldKeys.sk

(***************************************************************************)
(* The App component (SpecApp).  keys ... activeTab are the state of the   *)
(* last render that React committed.  An action is one task of the event   *)
(* loop:                                                                   *)
(*   - an event of the user (a click, an edit of a text area); it runs the *)
(*     handler of the last render committed, and React renders the         *)
(*     updates of the handler before the task ends;                        *)
(*   - the timer callback of generateKeys with, as its microtask, the      *)
(*     continuation of handleGenerateKeys, whose updates React queues and  *)
(*     renders in a later task (GenerateKeysResolved, then Render);        *)
(*   - the effect on [keys] of a render that changed keys, run in a task   *)
(*     after that render, or before React renders the updates of an event  *)
(*     that comes first; its updates are queued likewise (RunEffect).      *)
(* Updates apply in the order of their calls: an update of an event that   *)
(* runs while updates are queued is rendered at once and is applied again  *)
(* after the queued ones when they are rendered.  This is the batching of  *)
(* React 18 and later.  The tabs and their text areas and buttons are      *)
(* rendered only when keys is set.                                         *)
(***************************************************************************)
\* setDecryptError("Sifre Cozme Hatasi: Gecersiz anahtar veya bozuk veri.")
\* (the message of the code, written here without its diacritics)
APP_DECRYPT_ERROR == "Sifre Cozme Hatasi: Gecersiz anahtar veya bozuk veri."
AppError == [t |-> "string", text |-> APP_DECRYPT_ERROR]

AppKeySources == {"low", "high"}
AppEncSources == {"ones"}
AppMessages == {<<>>, DefaultMessage}

\* The key pair that generateKeys resolves with for each stream of draws.
AppKeyPairs == [src \in AppKeySources |-> generateKeysCallback(KeyRandom(src))]
\* "%%%", "", and a container whose bytes are 0x41 0xFF
AppCiphertexts == {NotBase64, EmptyString, CraftedBytes(<<65, 255>>)}

\* The state of the App before any event, for the streams of draws that
\* generateKeys may use.  encryptResults holds the result of
\* encryptText(keys.pk, inputMessage) for each key pair, message, stream of
\* draws and time, computed once.
InitApp(sources) ==
  /\ InitProgram
  /\ encryptResults =
       [kp \in {AppKeyPairs[src] : src \in sources}, m \in AppMessages \ {<<>>},
        esrc \in AppEncSources, now \in Timestamps |->
          EncryptCall(kp, m, EncRandom(esrc), now)]

\* The updates that the effect on [keys] queues, for the values of the
\* render it belongs to:
\* if (keys && inputMessage && !ciphertext) handleEncrypt()
EffectUpdates(render, esrc, now) ==
  IF render.inputMessage # <<>> /\ render.ciphertext = EmptyString
  THEN LET result == encryptResults[render.keys, render.inputMessage, esrc, now]
       IN  [kind |-> "encrypt", ciphertext |-> result.ciphertext,
            decryptedText |-> <<>>, encryptionStats |-> result.stats]
  ELSE JNull

\* The queue of updates after an event whose handler has called the
\* setters of the fields of update.  A pending effect runs before React
\* renders the updates of the event, so that its updates come after them;
\* updates queued before the event are followed by those of the event.
QueueAfterEvent(update, esrc, now) ==
  /\ pendingEffect' = JNull
  /\ pendingUpdates' =
       IF pendingEffect # JNull THEN EffectUpdates(pendingEffect, esrc, now)
       ELSE IF pendingUpdates # JNull
       THEN [f \in DOMAIN pendingUpdates |->
               IF f \in DOMAIN update THEN update[f] ELSE pendingUpdates[f]]
       ELSE JNull

\* handleGenerateKeys up to its await: setIsGenerating(true) and the call
\* of generateKeys; the button is disabled while isGenerating.
HandleGenerateKeys(esrc, now) ==
  /\ ~isGenerating
  /\ isGenerating' = TRUE
  /\ QueueAfterEvent([isGenerating |-> TRUE], esrc, now)
  /\ UNCHANGED <<keys, inputMessage, ciphertext, decryptedText, encryptionStats,
                 decryptError, activeTab, encryptResults,
                 sessionVars, algVars, callVars, promiseVars>>

\* The timer callback of generateKeys and the continuation of
\* handleGenerateKeys: setKeys(newKeys), setCiphertext(""),
\* setDecryptedText(""), setEncryptionStats([]), setIsGenerating(false).
\* The updates are queued, behind the updates of the effect when these are
\* still queued (nothing orders the timer after the render of React), so
\* that they are the last of every field.  The timer is pending while
\* isGenerating is rendered and the updates of the continuation are not
\* yet queued.
GenerateKeysResolved(src) ==
  /\ isGenerating
  /\ IF pendingUpdates = JNull THEN TRUE ELSE pendingUpdates.kind # "keys"
  /\ pendingUpdates' = [kind |-> "keys", keys |-> AppKeyPairs[src],
                        ciphertext |-> EmptyString, decryptedText |-> <<>>,
                        encryptionStats |-> <<>>]
  /\ UNCHANGED <<keys, isGenerating, inputMessage, ciphertext, decryptedText,
                 encryptionStats, decryptError, activeTab, pendingEffect,
                 encryptResults, sessionVars, algVars, callVars, promiseVars>>

\* React renders the queued updates and commits the render.  A render
\* that changed keys has the effect on [keys] to run.
Render ==
  /\ pendingUpdates # JNull
  /\ ciphertext' = pendingUpdates.ciphertext
  /\ decryptedText' = pendingUpdates.decryptedText
  /\ encryptionStats' = pendingUpdates.encryptionStats
  /\ IF pendingUpdates.kind = "keys"
     THEN /\ keys' = pendingUpdates.keys
          /\ isGenerating' = FALSE
          /\ pendingEffect' = [keys |-> pendingUpdates.keys,
                               inputMessage |-> inputMessage,
                               ciphertext |-> pendingUpdates.ciphertext]
     ELSE UNCHANGED <<keys, isGenerating, pendingEffect>>
  /\ pendingUpdates' = JNull
  /\ UNCHANGED <<inputMessage, decryptError, activeTab, encryptResults,
                 sessionVars, algVars, callVars, promiseVars>>

\* The effect on [keys] runs in a task of its own.
RunEffect(esrc, now) ==
  /\ pendingEffect # JNull
  /\ pendingEffect' = JNull
  /\ pendingUpdates' = EffectUpdates(pendingEffect, esrc, now)
  /\ UNCHANGED <<keys, isGenerating, inputMessage, ciphertext, decryptedText,
                 encryptionStats, decryptError, activeTab, encryptResults,
                 sessionVars, algVars, callVars, promiseVars>>

\* onChange of the plaintext area: the text has changed
SetInputMessage(m, esrc, now) ==
  /\ keys # JNull
  /\ activeTab = "encrypt"
  /\ m # inputMessage
  /\ inputMessage' = m
  /\ QueueAfterEvent([inputMessage |-> m], esrc, now)
  /\ UNCHANGED <<keys, isGenerating, ciphertext, decryptedText, encryptionStats,
                 decryptError, activeTab, encryptResults,
                 sessionVars, algVars, callVars, promiseVars>>

\* handleEncrypt: if (!keys || !inputMessage) return
HandleEncrypt(esrc, now) ==
  /\ keys # JNull
  /\ activeTab = "encrypt"
  /\ inputMessage # <<>>
  /\ \E result \in {encryptResults[keys, inputMessage, esrc, now]} :
       /\ ciphertext' = result.ciphertext
       /\ encryptionStats' = result.stats
       /\ decryptedText' = <<>>
       /\ QueueAfterEvent([ciphertext |-> result.ciphertext,
                           encryptionStats |-> result.stats,
                           decryptedText |-> <<>>], esrc, now)
  /\ UNCHANGED <<keys, isGenerating, inputMessage, decryptError, activeTab,
                 encryptResults, sessionVars, algVars, callVars, promiseVars>>

\* onChange of the ciphertext area: the text has changed
SetCiphertext(str, esrc, now) ==
  /\ keys # JNull
  /\ activeTab = "decrypt"
  /\ str # ciphertext
  /\ ciphertext' = str
  /\ QueueAfterEvent([ciphertext |-> str], esrc, now)
  /\ UNCHANGED <<keys, isGenerating, inputMessage, decryptedText, encryptionStats,
                 decryptError, activeTab, encryptResults,
                 sessionVars, algVars, callVars, promiseVars>>

\* A mutant of HandleDecrypt: setDecryptError(null) is missing, so that a
\* successful decryption leaves the error of an earlier one.
HandleDecryptKeepError(esrc, now) ==
  /\ keys # JNull
  /\ activeTab = "decrypt"
  /\ ciphertext # EmptyString
  /\ \E result \in {DecryptCall(keys, ciphertext)} :
       /\ IF result.ok
          THEN decryptError' = decryptError /\ decryptedText' = result.value
          ELSE decryptError' = AppError /\ decryptedText' = <<>>
       /\ QueueAfterEvent([decryptedText |-> IF result.ok THEN result.value ELSE <<>>],
                          esrc, now)
  /\ UNCHANGED <<keys, isGenerating, inputMessage, ciphertext, encryptionStats,
                 activeTab, encryptResults, sessionVars, algVars, callVars, promiseVars>>

\* handleDecrypt: if (!keys || !ciphertext) return
HandleDecrypt(esrc, now) ==
  /\ keys # JNull
  /\ activeTab = "decrypt"
  /\ ciphertext # EmptyString
  /\ \E result \in {DecryptCall(keys, ciphertext)} :
       /\ IF result.ok
          THEN decryptError' = JNull /\ decryptedText' = result.value
          ELSE decryptError' = AppError /\ decryptedText' = <<>>
       /\ QueueAfterEvent([decryptedText |-> IF result.ok THEN result.value ELSE <<>>],
                          esrc, now)
  /\ UNCHANGED <<keys, isGenerating, inputMessage, ciphertext, encryptionStats,
                 activeTab, encryptResults, sessionVars, algVars, callVars, promiseVars>>

\* onClick of the tab that is not the active one (a click on the active
\* tab sets the state it has, and React renders nothing)
SetActiveTab(tab, esrc, now) ==
  /\ keys # JNull
  /\ tab # activeTab
  /\ activeTab' = tab
  /\ QueueAfterEvent([activeTab |-> tab], esrc, now)
  /\ UNCHANGED <<keys, isGenerating, inputMessage, ciphertext, decryptedText,
                 encryptionStats, decryptError, encryptResults,
                 sessionVars, algVars, callVars, promiseVars>>

NextApp(sources) ==
  \/ \E esrc \in AppEncSources, now \in Timestamps : HandleGenerateKeys(esrc, now)
  \/ \E src \in sources : GenerateKeysResolved(src)
  \/ Render
  \/ \E esrc \in AppEncSources, now \in Timestamps : RunEffect(esrc, now)
  \/ \E m \in AppMessages, esrc \in AppEncSources, now \in Timestamps :
       SetInputMessage(m, esrc, now)
  \/ \E esrc \in AppEncSources, now \in Timestamps : HandleEncrypt(esrc, now)
  \/ \E str \in AppCiphertexts, esrc \in AppEncSources, now \in Timestamps :
       SetCiphertext(str, esrc, now)
  \/ \E esrc \in AppEncSources, now \in Timestamps : HandleDecrypt(esrc, now)
  \/ \E tab \in {"encrypt", "decrypt"}, esrc \in AppEncSources, now \in Timestamps :
       SetActiveTab(tab, esrc, now)

\* The App component when every generateKeys draws the same stream.
SpecApp == InitApp({"low"}) /\ [][NextApp({"low"})]_vars

\* A stage of decryptText fails on the string: the base64 decoding, the
\* parsing, the computation of a block, or the decoding of the reassembled
\* bytes as UTF-8.
DecodeFails(sk, str) ==
  \/ atob(str) = JThrow
  \/ JSONparse(atob(str)) = JThrow
  \/ DecryptBits(sk, JSONparse(atob(str))) = JThrow
  \/ ~IsWellFormedUtf8(ReassembledBytes(sk, str))

\* C3: whenever a stage of decryptText fails, the call throws the one error
\* and returns no plaintext, and handleDecrypt leaves decryptedText empty
\* and decryptError set.
C3_NoPartialSuccess ==
  [][((\E esrc \in AppEncSources, now \in Timestamps : HandleDecrypt(esrc, now))
        /\ DecodeFails(keys.sk, ciphertext)) =>
        /\ DecryptCall(keys, ciphertext) = Thrown(DECRYPT_ERROR)
        /\ decryptedText' = <<>>
        /\ decryptError' = AppError]_vars

\* C22: a decryption error and a decrypted text are never shown together:
\* whenever decryptError is not null, decryptedText is the empty string.
C22_ErrorExcludesText ==
  decryptError # JNull => decryptedText = <<>>

\* An error is shown for the ciphertext "%%%", typed after the key pair was
\* installed.
C22_Witness ==
  /\ keys # JNull
  /\ ciphertext = NotBase64
  /\ decryptError = AppError
  /\ decryptedText = <<>>

\* The App component when generateKeys draws one of two streams, with the
\* scheduling of the event loop: the timer of a pending generateKeys fires,
\* React renders the updates queued, and the effect to run runs.
SpecAppFair ==
  /\ InitApp(AppKeySources)
  /\ [][NextApp(AppKeySources)]_vars
  /\ WF_vars(\E src \in AppKeySources : GenerateKeysResolved(src))
  /\ WF_vars(Render)
  /\ WF_vars(\E esrc \in AppEncSources, now \in Timestamps : RunEffect(esrc, now))

\* The ciphertext displayed came from handleEncrypt: it is not empty and
\* was not typed into the ciphertext area.
DisplayedFromEncrypt == ciphertext # EmptyString /\ ciphertext \notin AppCiphertexts

\* The string is a ciphertext of encryptText under the public key of kp.
EncryptedUnder(kp, str) ==
  \E m \in AppMessages \ {<<>>}, esrc \in AppEncSources, now \in Timestamps :
     str = encryptResults[kp, m, esrc, now].ciphertext

\* C23: the render that installs a new key pair shows ciphertext,
\* decryptedText and encryptionStats empty and isGenerating false; a
\* pending generation always ends; and a displayed ciphertext of
\* handleEncrypt was encrypted under the public key installed, also when
\* Encrypt was clicked while a generation was pending.
C23_CiphertextMatchesKeys ==
  /\ [][keys' # keys =>
          /\ ciphertext' = EmptyString
          /\ decryptedText' = <<>>
          /\ encryptionStats' = <<>>
          /\ ~isGenerating']_vars
  /\ [](DisplayedFromEncrypt => (keys # JNull /\ EncryptedUnder(keys, ciphertext)))
  /\ isGenerating ~> ~isGenerating

(***************************************************************************)
(* Draws of the random source (SpecRnd): one call of getRandomInt,         *)
(* getRandomError or generateMatrix, the draws of one generateKeys, or the *)
(* draws of one binary vector of encryptText.  algCall records the call.   *)
(* A word is the Uint32 stored by crypto.getRandomValues; the words of the *)
(* model stay below 2^31.                                                  *)
(***************************************************************************)
MaxWord == 14
RndWords == 0..MaxWord \cup {2147483646, 2147483647}
\* The first word of a run of consecutive words (at most four).
RndBases == 0..MaxWord \cup {2147483644}
RndMaxima == 1..(2 * ERROR_RANGE + 1) \cup {Q}
RndRanges == 0..ERROR_RANGE
RndShapes == {<<1, 1>>, <<1, 2>>, <<2, 1>>, <<2, 2>>}
RndBlocks == 1..2

GetRandomInt(max, w) ==
  /\ algCall' = [done |-> TRUE, op |-> "getRandomInt", arg |-> max, word |-> w,
                 result |-> getRandomInt(max, w)]
  /\ UNCHANGED <<sessionVars, callVars, appVars, promiseVars>>

GetRandomError(range, w) ==
  /\ algCall' = [done |-> TRUE, op |-> "getRandomError", arg |-> range, word |-> w,
                 result |-> getRandomError(range, w)]
  /\ UNCHANGED <<sessionVars, callVars, appVars, promiseVars>>

\* generateMatrix(rows, cols, q) when the words drawn are w, w + 1, ...
GenerateMatrix(sh, q, w) ==
  /\ algCall' = [done |-> TRUE, op |-> "generateMatrix", rows |-> sh[1],
                 cols |-> sh[2], q |-> q,
                 result |-> generateMatrix(sh[1], sh[2], q,
                              [i \in 1..sh[1] |-> [j \in 1..sh[2] |->
                                  w + (i - 1) * sh[2] + (j - 1)]])]
  /\ UNCHANGED <<sessionVars, callVars, appVars, promiseVars>>

\* The draws of the timer callback of generateKeys: s, A and e.
DrawKeys(src) ==
  /\ algCall' = [done |-> TRUE, op |-> "generateKeys",
                 s |-> generateKeysCallback(KeyRandom(src)).sk,
                 A |-> generateKeysCallback(KeyRandom(src)).pk.A,
                 e |-> ErrorVector(KeyRandom(src))]
  /\ UNCHANGED <<sessionVars, callVars, appVars, promiseVars>>

\* The draws of one iteration of bits.forEach: r.
DrawBinaryVector(src, k) ==
  /\ algCall' = [done |-> TRUE, op |-> "encryptText",
                 r |-> BinaryVector(EncRandom(src)[k])]
  /\ UNCHANGED <<sessionVars, callVars, appVars, promiseVars>>

NextRnd ==
  \/ ~algCall.done /\ \E max \in RndMaxima, w \in RndWords : GetRandomInt(max, w)
  \/ ~algCall.done /\ \E range \in RndRanges, w \in RndWords : GetRandomError(range, w)
  \/ ~algCall.done /\ \E sh \in RndShapes, q \in AlgModuli, w \in RndBases :
                         GenerateMatrix(sh, q, w)
  \/ ~algCall.done /\ \E src \in KeySources : DrawKeys(src)
  \/ ~algCall.done /\ \E src \in EncSources, k \in RndBlocks : DrawBinaryVector(src, k)

SpecRnd == Init /\ [][NextRnd]_vars

\* C11: getRandomInt(max) is an integer in [0, max); getRandomError(range)
\* is an integer in [-range, range], and each of the 2*range+1 values is
\* returned for some word; every entry of A is in [0, Q), every entry of s
\* and e is in [-3, 3], and every entry of r is 0 or 1.
C11_RandomRanges ==
  /\ \A range \in RndRanges : \A val \in (-range)..range :
        \E w \in RndWords : getRandomError(range, w) = val
  /\ algCall.done =>
       CASE algCall.op = "getRandomInt" -> algCall.result \in 0..(algCall.arg - 1)
         [] algCall.op = "getRandomError" ->
              algCall.result \in (-algCall.arg)..algCall.arg
         [] algCall.op = "generateMatrix" ->
              /\ Len(algCall.result) = algCall.rows
              /\ \A i \in 1..algCall.rows :
                   /\ Len(algCall.result[i]) = algCall.cols
                   /\ \A j \in 1..algCall.cols :
                        algCall.result[i][j] \in 0..(algCall.q - 1)
         [] algCall.op = "generateKeys" ->
              /\ \A i \in 1..M : \A j \in 1..N : algCall.A[i][j] \in 0..(Q - 1)
              /\ \A j \in 1..N : algCall.s[j] \in (-3)..3
              /\ \A i \in 1..M : algCall.e[i] \in (-3)..3
         [] OTHER -> \A i \in 1..M : algCall.r[i] \in {0, 1}

\* A draw of the largest word that gives the lowest error value.
C11_Witness ==
  /\ algCall.done
  /\ algCall.op = "getRandomError"
  /\ algCall.arg = ERROR_RANGE
  /\ algCall.word > MaxWord
  /\ algCall.result = -ERROR_RANGE

(***************************************************************************)
(* The promises of generateKeys (SpecKeygen).  A call returns a pending    *)
(* promise and arms a timer of TIMER_DELAY ms; the timer callback, which   *)
(* runs once the delay has passed and in the order the timers were armed,  *)
(* draws the key pair and resolves the promise.  The executor receives     *)
(* resolve only, and the callback has no throw.  Time advances, and a      *)
(* timer that is due runs: the two fairness conditions of the event loop.  *)
(***************************************************************************)
\* setTimeout(..., 100)
TIMER_DELAY == 100
MaxPromises == 2
MaxClock == 300
ClockStep == 50
KeygenSources == {"high", "low"}

\* What the callback can resolve with: the key pair made of each draw.
KeygenOutcomes ==
  {[seed |-> src, value |-> generateKeysCallback(KeyRandom(src))] : src \in KeygenSources}

\* The index of the first pending promise, 0 when there is none.
FirstPending ==
  IF \E i \in 1..Len(promises) : promises[i].state = "pending"
  THEN CHOOSE i \in 1..Len(promises) :
         /\ promises[i].state = "pending"
         /\ \A k \in 1..(i - 1) : promises[k].state # "pending"
  ELSE 0

\* generateKeys(): new Promise(resolve => setTimeout(callback, 100))
NewPromise ==
  /\ Len(promises) < MaxPromises
  /\ clock + TIMER_DELAY <= MaxClock
  /\ promises' = Append(promises, [state |-> "pending", due |-> clock + TIMER_DELAY])
  /\ UNCHANGED <<clock, sessionVars, algVars, callVars, appVars>>

\* The callback of the oldest armed timer, once its delay has passed.
TimerCallback(outcome) ==
  /\ FirstPending > 0
  /\ clock >= promises[FirstPending].due
  /\ promises' = [promises EXCEPT ![FirstPending] =
                    [state |-> "fulfilled", seed |-> outcome.seed,
                     value |-> outcome.value]]
  /\ UNCHANGED <<clock, sessionVars, algVars, callVars, appVars>>

TimePasses ==
  /\ clock < MaxClock
  /\ clock' = IF clock + ClockStep > MaxClock THEN MaxClock ELSE clock + ClockStep
  /\ UNCHANGED <<promises, sessionVars, algVars, callVars, appVars>>

NextKeygen ==
  \/ NewPromise
  \/ \E outcome \in KeygenOutcomes : TimerCallback(outcome)
  \/ TimePasses

SpecKeygen ==
  /\ Init
  /\ [][NextKeygen]_vars
  /\ WF_vars(TimePasses)
  /\ WF_vars(\E outcome \in KeygenOutcomes : TimerCallback(outcome))

\* A KeyPair with A, b and sk fully populated.
IsCompleteKeyPair(kp) ==
  /\ DOMAIN kp = {"pk", "sk"}
  /\ DOMAIN kp.pk = {"A", "b"}
  /\ Len(kp.pk.A) = M
  /\ \A i \in 1..M : Len(kp.pk.A[i]) = N /\ \A j \in 1..N : kp.pk.A[i][j] \in Int
  /\ Len(kp.pk.b) = M
  /\ \A i \in 1..M : kp.pk.b[i] \in Int
  /\ Len(kp.sk) = N
  /\ \A j \in 1..N : kp.sk[j] \in Int

\* C12: a promise of generateKeys is pending with nothing in it, or
\* fulfilled with a complete KeyPair, and never rejected; once fulfilled it
\* does not change; and every pending promise is eventually fulfilled.
C12_KeygenAllOrNothing ==
  /\ [](\A i \in 1..Len(promises) :
          \/ promises[i].state = "pending" /\ DOMAIN promises[i] = {"state", "due"}
          \/ promises[i].state = "fulfilled" /\ IsCompleteKeyPair(promises[i].value))
  /\ [][\A i \in 1..Len(promises) :
          promises[i].state = "fulfilled" => promises'[i] = promises[i]]_vars
  /\ \A i \in 1..MaxPromises :
       (Len(promises) >= i /\ promises[i].state = "pending")
         ~> (Len(promises) >= i /\ promises[i].state = "fulfilled")

\* The first promise is fulfilled while the second is still pending.
C12_Witness ==
  /\ Len(promises) >= 2
  /\ promises[1].state = "fulfilled"
  /\ promises[2].state = "pending"

(***************************************************************************)
(* Invocations that overlap (SpecOverlap).  A call of generateKeys returns *)
(* at once and its timer callback runs later, so that the caller goes on   *)
(* in between: it calls generateKeys again, and it calls encryptText and   *)
(* decryptText with the key pair of any promise fulfilled so far, while    *)
(* other promises are pending or have been fulfilled since.  The program   *)
(* has one thread: a timer callback, a call of encryptText and a call of   *)
(* decryptText each run to completion.  lastCall is the last call of       *)
(* encryptText or decryptText: key is the promise whose key pair the       *)
(* caller passed, pending the number of timers armed when it was made.     *)
(***************************************************************************)
\* What encryptText returns when nothing else has been called: on each
\* public key that generateKeys can resolve with, each plaintext that is
\* not empty and each draw of the calls.
EncryptOutcomes ==
  {[pk |-> kp.value.pk, plaintext |-> m, rnd |-> src, now |-> now,
    result |-> encryptText(kp.value.pk, m, EncRandom(src), now)] :
     kp \in KeygenOutcomes, m \in CallPlaintexts \ {<<>>},
     src \in CallEncSources, now \in Timestamps}

\* What decryptText returns when nothing else has been called: on each
\* secret key, a string that is not base64 and each string that encryptText
\* returns, under the same key pair or under another.
DecryptOutcomes ==
  {[sk |-> kp.value.sk, ciphertext |-> str,
    result |-> decryptText(kp.value.sk, str)] :
     kp \in KeygenOutcomes,
     str \in {NotBase64} \cup {e.result.ciphertext : e \in EncryptOutcomes}}

\* The timers of generateKeys that are armed.
PendingTimers ==
  Cardinality({k \in 1..Len(promises) : promises[k].state = "pending"})

\* The promise that the last timer callback fulfilled, 0 when there is none.
LastFulfilled == IF FirstPending > 0 THEN FirstPending - 1 ELSE Len(promises)

\* A mutant of OverlapEncryptText: encryptText works on the public key that
\* the last timer callback left in a variable of the module, and not on its
\* argument pk.
OverlapEncryptTextOfLastKey(i, outcome) ==
  /\ promises[i].state = "fulfilled"
  /\ outcome.pk = promises[LastFulfilled].value.pk
  /\ lastCall' = [done |-> TRUE, op |-> "encryptText", key |-> i,
                  plaintext |-> outcome.plaintext, rnd |-> outcome.rnd,
                  now |-> outcome.now, pending |-> PendingTimers,
                  result |-> outcome.result]
  /\ UNCHANGED <<timers, heldKeys, heldSeed, sessionVars, algVars, appVars, promiseVars>>

\* encryptText(pk, plaintext) with the public key of promise i
OverlapEncryptText(i, outcome) ==
  /\ promises[i].state = "fulfilled"
  /\ outcome.pk = promises[i].value.pk
  /\ lastCall' = [done |-> TRUE, op |-> "encryptText", key |-> i,
                  plaintext |-> outcome.plaintext, rnd |-> outcome.rnd,
                  now |-> outcome.now, pending |-> PendingTimers,
                  result |-> outcome.result]
  /\ UNCHANGED <<timers, heldKeys, heldSeed, sessionVars, algVars, appVars, promiseVars>>

\* decryptText(sk, ciphertextBase64) with the secret key of promise i
OverlapDecryptText(i, outcome) ==
  /\ promises[i].state = "fulfilled"
  /\ outcome.sk = promises[i].value.sk
  /\ lastCall' = [done |-> TRUE, op |-> "decryptText", key |-> i,
                  ciphertext |-> outcome.ciphertext, pending |-> PendingTimers,
                  result |-> outcome.result]
  /\ UNCHANGED <<timers, heldKeys, heldSeed, sessionVars, algVars, appVars, promiseVars>>

NextOverlap ==
  \/ NewPromise
  \/ \E outcome \in KeygenOutcomes : TimerCallback(outcome)
  \/ TimePasses
  \/ \E i \in 1..Len(promises), outcome \in EncryptOutcomes :
       OverlapEncryptText(i, outcome)
  \/ \E i \in 1..Len(promises), outcome \in DecryptOutcomes :
       OverlapDecryptText(i, outcome)

SpecOverlap == Init /\ [][NextOverlap]_vars

\* The calls a and b of encryptText or decryptText were given the same key,
\* the same text and, for encryptText, the same draws and the same time.
SameInputs(a, b) ==
  /\ a.done
  /\ b.done
  /\ a.op = b.op
  /\ IF a.op = "encryptText"
     THEN /\ promises[a.key].value.pk = promises[b.key].value.pk
          /\ a.plaintext = b.plaintext
          /\ a.rnd = b.rnd
          /\ a.now = b.now
     ELSE /\ promises[a.key].value.sk = promises[b.key].value.sk
          /\ a.ciphertext = b.ciphertext

\* The call returned what the function returns on the same inputs and draws
\* when nothing else has been called.
ReturnedAsAlone(call) ==
  IF call.op = "encryptText"
  THEN \E o \in EncryptOutcomes :
         /\ o.pk = promises[call.key].value.pk
         /\ o.plaintext = call.plaintext
         /\ o.rnd = call.rnd
         /\ o.now = call.now
         /\ o.result = call.result
  ELSE \E o \in DecryptOutcomes :
         /\ o.sk = promises[call.key].value.sk
         /\ o.ciphertext = call.ciphertext
         /\ o.result = call.result

DecideValues == 0..(Q - 1) \cup {0 - Q, 0 - 1, Q, Q + FloorDiv(Q, 2)}
DecideSecrets == {0 - ERROR_RANGE, 1}
DecideEntries == {0, 1, Q - 1}

DecideSecret(s) == [j \in 1..N |-> s]
DecideU(x) == [j \in 1..N |-> IF j = 1 THEN x ELSE 0]
DecideBlock(x, v) == JObj([u |-> JVec(DecideU(x)), v |-> JNum(v)])

\* decryptText(sk, ciphertext) of a container of the one block {u, v}
DecryptOneBlock(s, x, v) ==
  /\ ~algCall.done
  /\ algCall' = [done |-> TRUE, op |-> "decide", s |-> s, x |-> x, v |-> v,
                 result |-> decryptText(DecideSecret(s),
                                        WithBlocks(JArr(<<DecideBlock(x, v)>>)))]
  /\ UNCHANGED <<sessionVars, callVars, appVars, promiseVars>>

NextDecide ==
  ~algCall.done /\ \E s \in DecideSecrets, x \in DecideEntries, v \in DecideValues :
                     DecryptOneBlock(s, x, v)

SpecDecide == Init /\ [][NextDecide]_vars

Decided == algCall.done /\ algCall.op = "decide"

\* d = (v - sk.u) mod Q in [0, Q), from the integers of the call.
DecideD == (algCall.v - algCall.s * algCall.x) % Q

\* d - Q when d > Q - floor(Q/4), else d.
Centred(d) == IF d > Q - (Q \div 4) THEN d - Q ELSE d

\* C13: the bit of a block is 1 exactly when the centred value c of
\* d = (v - sk.u) mod Q has |c - floor(Q/2)| < floor(Q/4), and 0 otherwise;
\* for Q = 3329 and d = 3328 the centred value is -1 and the bit is 0.
C13_DecisionRule ==
  Decided =>
    LET c == Centred(DecideD)
        bit == IF Abs(c - (Q \div 2)) < Q \div 4 THEN 1 ELSE 0
    IN  /\ algCall.result = Returned(<<bit>>)
        /\ (Q = 3329 /\ DecideD = 3328) => (c = 0 - 1 /\ algCall.result = Returned(<<0>>))

\* d = 3328 has been decided, as bit 0.
C13_Witness ==
  Decided /\ DecideD = Q - 1 /\ algCall.result = Returned(<<0>>)

\* The distance of a and b in [0, Q] on the ring mod Q.
RingDistance(a, b) ==
  IF Abs(a - b) < Q - Abs(a - b) THEN Abs(a - b) ELSE Q - Abs(a - b)

\* C14 as stated: the bit is 1 when d is strictly closer to floor(Q/2) than
\* to 0 on the ring mod Q, and 0 when d is strictly closer to 0.
C14_NearestCentre ==
  Decided =>
    /\ RingDistance(DecideD, Q \div 2) < RingDistance(DecideD, 0)
         => algCall.result = Returned(<<1>>)
    /\ RingDistance(DecideD, 0) < RingDistance(DecideD, Q \div 2)
         => algCall.result = Returned(<<0>>)

\* C14 as amended: the bit is that of the strictly closer centre, except at
\* d = floor(Q/2) + floor(Q/4), which is closer to floor(Q/2) and decides 0.
C14_NearestCentreBelowThreshold ==
  Decided =>
    /\ (/\ RingDistance(DecideD, Q \div 2) < RingDistance(DecideD, 0)
        /\ DecideD # (Q \div 2) + (Q \div 4))
         => algCall.result = Returned(<<1>>)
    /\ (\/ RingDistance(DecideD, 0) < RingDistance(DecideD, Q \div 2)
        \/ DecideD = (Q \div 2) + (Q \div 4))
         => algCall.result = Returned(<<0>>)

\* d = 2496, at distance 832 from 1664 and 833 from 0, has been decided 0.
C14_Witness ==
  /\ Decided
  /\ DecideD = (Q \div 2) + (Q \div 4)
  /\ RingDistance(DecideD, Q \div 2) < RingDistance(DecideD, 0)
  /\ algCall.result = Returned(<<0>>)

(***************************************************************************)
(* Reassembly of the decided bits (Spec).                                  *)
(***************************************************************************)
\* The byte of group g of the bits, most-significant bit first, a missing
\* trailing bit counting as 0.
MsbFirstPaddedByte(bits, g) ==
  LET bitAt(k) == IF k <= Len(bits) THEN bits[k] ELSE 0
      place == [j \in 0..7 |-> bitAt(8 * (g - 1) + j + 1) * (2 ^ (7 - j))]
  IN  place[0] + place[1] + place[2] + place[3] + place[4] + place[5] + place[6] + place[7]

\* C15: the decided bits are grouped 8 per byte, most-significant bit first,
\* and an incomplete trailing group of k < 8 bits fills the k
\* most-significant positions of the last byte, the low positions being 0.
C15_BitReassembly ==
  (callPc = "decrypted" /\ ReachesBytes(keyPair.sk, decCall.ciphertext)) =>
    LET bits == DecryptBits(keyPair.sk, JSONparse(atob(decCall.ciphertext))).ns
        bytes == ReassembledBytes(keyPair.sk, decCall.ciphertext)
    IN  /\ Len(bytes) = (Len(bits) + 7) \div 8
        /\ \A g \in 1..Len(bytes) : bytes[g] = MsbFirstPaddedByte(bits, g)

(***************************************************************************)
(* The blocks of encryptText and what decryptText computes from them       *)
(* (Spec).                                                                 *)
(***************************************************************************)
\* The vector r drawn for block k of the last encryption, and the bit the
\* block carries.
DrawnR(k) == BinaryVector(EncRandom(encCall.rnd)[k])
CarriedBit(k) == BytesToBits(ProducedBytes)[k]

\* Column j of A weighted by r, as an integer.
ColumnDot(A, r, j) == Sum([i \in 1..M |-> A[i][j] * r[i]], 1, M)

\* C16: every block of encryptText is {u, v} and nothing else, with
\* u = A^T r mod Q of exactly N entries in [0, Q) and
\* v = (b.r + bit * floor(Q/2)) mod Q in [0, Q), for the vector r of M
\* entries in {0, 1} drawn for that block.
C16_BlockContents ==
  callPc = "encrypted" =>
    \A k \in 1..Len(ProducedBlocks) :
      LET r == DrawnR(k)
          u == GetProp(ProducedBlocks[k], "u")
          v == GetProp(ProducedBlocks[k], "v")
      IN  /\ ProducedBlocks[k].t = "object"
          /\ DOMAIN ProducedBlocks[k].o = {"u", "v"}
          /\ Len(r) = M
          /\ \A i \in 1..M : r[i] \in {0, 1}
          /\ u.t = "numbers"
          /\ Len(u.ns) = N
          /\ \A j \in 1..N :
               /\ u.ns[j] \in 0..(Q - 1)
               /\ u.ns[j] = ColumnDot(keyPair.pk.A, r, j) % Q
          /\ v.t = "number"
          /\ v.n \in 0..(Q - 1)
          /\ v.n = (Sum([i \in 1..M |-> keyPair.pk.b[i] * r[i]], 1, M)
                      + CarriedBit(k) * (Q \div 2)) % Q

\* Blocks have been produced for bits of both values, one of them with a v
\* that wrapped around Q.
C16_Witness ==
  /\ callPc = "encrypted"
  /\ \E k \in 1..Len(ProducedBlocks) : CarriedBit(k) = 0
  /\ \E k \in 1..Len(ProducedBlocks) :
       /\ CarriedBit(k) = 1
       /\ GetProp(ProducedBlocks[k], "v").n < Q \div 2

\* The error vector e drawn for the key pair of the session.
DrawnE == ErrorVector(KeyRandom(keySeed))

\* C18: along generateKeys -> encryptText -> decryptText the operands of
\* matVecMul(A, s), vecAdd(As, e), matTransVecMul(A, r), vecDot(b, r) and
\* vecDot(sk, u) have matching dimensions: A is M x N, s and u have length
\* N, and b, e and r have length M.
C18_DimensionConsistency ==
  /\ callPc \notin {"start", "generating"} =>
       /\ Len(keyPair.pk.A) = M
       /\ \A i \in 1..M : Len(keyPair.pk.A[i]) = N
       /\ Len(keyPair.sk) = N
       /\ Len(keyPair.sk) = Len(keyPair.pk.A[1])
       /\ Len(DrawnE) = M
       /\ Len(keyPair.pk.b) = M
       /\ Len(keyPair.pk.b) = Len(DrawnE)
  /\ encCall.done =>
       \A k \in 1..Len(ProducedBlocks) :
         /\ Len(DrawnR(k)) = M
         /\ Len(DrawnR(k)) = Len(keyPair.pk.A)
         /\ Len(DrawnR(k)) = Len(keyPair.pk.b)
         /\ GetProp(ProducedBlocks[k], "u").t = "numbers"
         /\ Len(GetProp(ProducedBlocks[k], "u").ns) = N
  /\ (encCall.done /\ callPc = "decrypted") =>
       /\ decCall.result.ok
       /\ LET blocks == GetProp(JSONparse(atob(decCall.ciphertext)), "blocks")
          IN  \A k \in 1..Len(ProducedBlocks) :
                /\ Index(blocks, k).t = "object"
                /\ GetProp(Index(blocks, k), "u").t = "numbers"
                /\ Len(GetProp(Index(blocks, k), "u").ns) = Len(keyPair.sk)

\* A ciphertext of the session's key pair, of at least 8 blocks, has been
\* decrypted.
C18_Witness ==
  /\ encCall.done
  /\ callPc = "decrypted"
  /\ Len(ProducedBlocks) >= 8

\* C20: for every block of encryptText under a key pair of generateKeys,
\* the d of decryptText is (e.r + bit * floor(Q/2)) mod Q, where the noise
\* e.r has |e.r| <= M * ERROR_RANGE = 768 < floor(Q/4) = 832.
C20_NoiseMargin ==
  encCall.done =>
    \A k \in 1..Len(ProducedBlocks) :
      LET u == GetProp(ProducedBlocks[k], "u")
          v == GetProp(ProducedBlocks[k], "v")
          sTu == vecDot(keyPair.sk, u, Q)
          d == CanonMod(JsRemV(JsSub(v, sTu), Q).n, Q)
          r == DrawnR(k)
          noise == Sum([i \in 1..M |-> DrawnE[i] * r[i]], 1, M)
      IN  /\ d = (noise + CarriedBit(k) * (Q \div 2)) % Q
          /\ Abs(noise) <= M * ERROR_RANGE
          /\ M * ERROR_RANGE = 768
          /\ Q \div 4 = 832
          /\ M * ERROR_RANGE < Q \div 4

\* A block has been produced whose noise is the largest possible, 768.
C20_Witness ==
  /\ encCall.done
  /\ \E k \in 1..Len(ProducedBlocks) :
       LET r == DrawnR(k)
       IN  Abs(Sum([i \in 1..M |-> DrawnE[i] * r[i]], 1, M)) = M * ERROR_RANGE

\* C21: the centring step does not change the decided bit: for every
\* canonical d in [0, Q) the bit of decryptText is the one the rule
\* |d - floor(Q/2)| < floor(Q/4) gives on d itself, which is 1 exactly for
\* floor(Q/2) - floor(Q/4) < d < floor(Q/2) + floor(Q/4).
C21_CentringIsNeutral ==
  Decided =>
    LET direct == IF Abs(DecideD - (Q \div 2)) < Q \div 4 THEN 1 ELSE 0
    IN  /\ algCall.result = Returned(<<direct>>)
        /\ algCall.result = Returned(<<1>>)
             <=> (/\ (Q \div 2) - (Q \div 4) < DecideD
                  /\ DecideD < (Q \div 2) + (Q \div 4))

\* The first value that the centring step replaces, d = Q - floor(Q/4) + 1,
\* has been decided.
C21_Witness ==
  /\ Decided
  /\ DecideD = Q - (Q \div 4) + 1
  /\ Centred(DecideD) < 0
  /\ algCall.result = Returned(<<0>>)

(***************************************************************************)
(* The substitution cipher of utils/crypto (SpecCrypto).  A text is a      *)
(* sequence of UTF-16 code units, a key a sequence of integers in          *)
(* [0, 255].  A base64 string is the sequence of its characters, each      *)
(* given by its index in the base64 alphabet, 0..63, with PAD for "=",     *)
(* WHITESPACE for an ASCII whitespace character (space, tab, LF, FF, CR)   *)
(* and NOT_BASE64 for any other character outside the alphabet.            *)
(***************************************************************************)
PAD == 64
NOT_BASE64 == 65
WHITESPACE == 66

\* btoa(binaryString) of the string whose char codes are the bytes.
btoaBinary(bytes) ==
  LET n == Len(bytes)
      byteAt(k) == IF k <= n THEN bytes[k] ELSE 0
      sextet(g, idx) ==
        LET b0 == byteAt(3 * g + 1)
            b1 == byteAt(3 * g + 2)
            b2 == byteAt(3 * g + 3)
        IN  CASE idx = 0 -> b0 \div 4
              [] idx = 1 -> (b0 % 4) * 16 + (b1 \div 16)
              [] idx = 2 -> IF 3 * g + 2 > n THEN PAD ELSE (b1 % 16) * 4 + (b2 \div 64)
              [] OTHER   -> IF 3 * g + 3 > n THEN PAD ELSE b2 % 64
  IN  [p \in 1..(4 * ((n + 2) \div 3)) |-> sextet((p - 1) \div 4, (p - 1) % 4)]

\* atob(str) followed by charCodeAt on every character: JVec of the bytes,
\* or JThrow for a string that is not base64.  atob is the forgiving-base64
\* decode: it removes the ASCII whitespace of the string, then one or two
\* trailing "=" when the length is a multiple of 4, and fails on a length of
\* 1 modulo 4 or on a character outside the alphabet.
atobBinary(str) ==
  LET data == SelectSeq(str, LAMBDA c : c # WHITESPACE)
      len0 == Len(data)
      stripped ==
        IF len0 % 4 = 0 /\ len0 >= 2 /\ data[len0] = PAD /\ data[len0 - 1] = PAD
        THEN SubSeq(data, 1, len0 - 2)
        ELSE IF len0 % 4 = 0 /\ len0 >= 1 /\ data[len0] = PAD
        THEN SubSeq(data, 1, len0 - 1)
        ELSE data
      len == Len(stripped)
      byteOf(k) ==
        LET q == ((8 * (k - 1)) \div 6) + 1
            off == (8 * (k - 1)) % 6
        IN  CASE off = 0 -> stripped[q] * 4 + (stripped[q + 1] \div 16)
              [] off = 2 -> (stripped[q] % 16) * 16 + (stripped[q + 1] \div 4)
              [] OTHER   -> (stripped[q] % 4) * 64 + stripped[q + 1]
  IN  IF len % 4 = 1 THEN JThrow
      ELSE IF \E p \in 1..len : stripped[p] \notin 0..63 THEN JThrow
      ELSE JVec([k \in 1..((len * 6) \div 8) |-> byteOf(k)])

\* outBytes[i] = (data[i] + key[i % L]) % 256
AddKey(data, key) ==
  [i \in 1..Len(data) |-> JsRem(data[i] + key[((i - 1) % Len(key)) + 1], 256)]

\* let m = (encryptedBytes[i] - key[i % L]) % 256; if (m < 0) m += 256
SubtractKey(encryptedBytes, key) ==
  [i \in 1..Len(encryptedBytes) |->
     LET k == key[((i - 1) % Len(key)) + 1]
         m == JsRem(encryptedBytes[i] - k, 256)
     IN  IF m < 0 THEN m + 256 ELSE m]

\* encryptText(text, key) of utils/crypto
cryptoEncryptText(text, key) ==
  IF Len(key) = 0 THEN <<>>
  ELSE btoaBinary(AddKey(TextEncoderEncode(text), key))

\* "Error: Invalid Cipher Text or Key"
CRYPTO_ERROR ==
  <<69, 114, 114, 111, 114, 58, 32, 73, 110, 118, 97, 108, 105, 100, 32, 67, 105,
    112, 104, 101, 114, 32, 84, 101, 120, 116, 32, 111, 114, 32, 75, 101, 121>>

\* decryptText(cipherText, key) of utils/crypto
cryptoDecryptText(cipherText, key) ==
  IF Len(key) = 0 THEN <<>>
  ELSE LET encryptedBytes == atobBinary(cipherText)
       IN  IF encryptedBytes.t = "throw" THEN CRYPTO_ERROR
           ELSE TextDecoderDecode(SubtractKey(encryptedBytes.ns, key))

\* Inputs: texts of up to MaxTextLen characters among "A", U+00E9, U+FEFF
\* and U+1F600 (a surrogate pair), keys of up to MaxKeyLen entries.
MaxTextLen == 2
MaxKeyLen == 2
CryptoChars == {<<65>>, <<233>>, <<65279>>, <<55357, 56832>>}
RECURSIVE CryptoTextsOf(_)
CryptoTextsOf(n) ==
  IF n = 0 THEN {<<>>}
  ELSE CryptoTextsOf(n - 1)
         \cup {t \o c : t \in CryptoTextsOf(n - 1), c \in CryptoChars}
CryptoTexts == CryptoTextsOf(MaxTextLen)
CryptoKeyEntries == {0, 1, 255}
CryptoKeys == UNION {[1..n -> CryptoKeyEntries] : n \in 0..MaxKeyLen}
\* "", "Q" (one character), "QQ==", "%%%%", "QUI=" and "QUJD", then strings
\* with whitespace: " ", "QQ==\n", "QQ ==", " QQ==", "QUJD\n" and "Q\n"
CryptoStrings ==
  {<<>>, <<16>>, <<16, 16, PAD, PAD>>,
   <<NOT_BASE64, NOT_BASE64, NOT_BASE64, NOT_BASE64>>,
   <<16, 20, 8, PAD>>, <<16, 20, 9, 3>>,
   <<WHITESPACE>>, <<16, 16, PAD, PAD, WHITESPACE>>,
   <<16, 16, WHITESPACE, PAD, PAD>>, <<WHITESPACE, 16, 16, PAD, PAD>>,
   <<16, 20, 9, 3, WHITESPACE>>, <<16, WHITESPACE>>}

\* encryptText(inputText, key), as handleProcess calls it in mode ENCRYPT
\* (handleProcess itself returns early on an empty key)
CryptoEncrypt(text, key) ==
  /\ algCall = NoCall
  /\ algCall' = [done |-> TRUE, op |-> "cryptoEncrypt", text |-> text, key |-> key,
                 result |-> cryptoEncryptText(text, key)]
  /\ UNCHANGED <<sessionVars, callVars, appVars, promiseVars>>

\* decryptText(inputText, key) of the string the last encryptText returned,
\* with the same key
CryptoDecrypt ==
  /\ algCall.done
  /\ algCall.op = "cryptoEncrypt"
  /\ algCall' = [done |-> TRUE, op |-> "cryptoDecrypt", text |-> algCall.text,
                 key |-> algCall.key, cipherText |-> algCall.result,
                 result |-> cryptoDecryptText(algCall.result, algCall.key)]
  /\ UNCHANGED <<sessionVars, callVars, appVars, promiseVars>>

\* decryptText(inputText, key) of a string typed by the user
CryptoDecryptTyped(str, key) ==
  /\ algCall = NoCall
  /\ algCall' = [done |-> TRUE, op |-> "cryptoDecryptTyped", key |-> key,
                 cipherText |-> str, result |-> cryptoDecryptText(str, key)]
  /\ UNCHANGED <<sessionVars, callVars, appVars, promiseVars>>

NextCrypto ==
  \/ algCall = NoCall /\ \E text \in CryptoTexts, key \in CryptoKeys : CryptoEncrypt(text, key)
  \/ CryptoDecrypt
  \/ algCall = NoCall /\ \E str \in CryptoStrings, key \in CryptoKeys :
                            CryptoDecryptTyped(str, key)

SpecCrypto == Init /\ [][NextCrypto]_vars

\* C24: for a non-empty key with entries in [0, 255], subtracting the key
\* from the bytes that encryptText produced restores the bytes of the text,
\* and decryptText(encryptText(text, key), key) is the text; with an empty
\* key both functions return the empty string.
C24_SubstitutionRoundTrip ==
  /\ (algCall.done /\ algCall.op = "cryptoEncrypt" /\ algCall.key = <<>>) =>
        algCall.result = <<>>
  /\ (algCall.done /\ algCall.op = "cryptoDecrypt") =>
        IF algCall.key = <<>>
        THEN algCall.result = <<>>
        ELSE /\ atobBinary(algCall.cipherText).t # "throw"
             /\ SubtractKey(atobBinary(algCall.cipherText).ns, algCall.key)
                  = TextEncoderEncode(algCall.text)
             /\ algCall.result = algCall.text

====
